---- MODULE Spec2Model ----
(***************************************************************************)
(* A model of the WordPress MCP extension: the wp-config.php finder, the   *)
(* config parser, the WordPressManager (cached config, database            *)
(* connection) and the chat request handler.                               *)
(*                                                                         *)
(* Every asynchronous function is a frame on the stack of the task that    *)
(* runs it.  The code between two awaits is one atomic step: an operator   *)
(* XxxCall is the synchronous prefix of a function (up to its first        *)
(* await), an action XxxAfterYyy is the continuation that runs when the    *)
(* awaited promise settles.  Tasks interleave at the awaits only.          *)
(***************************************************************************)
EXTENDS Integers, Sequences, FiniteSets, TLC

VARIABLES
    fs,          \* the filesystem: workspace folder, wp-config.php files, content
    db,          \* the database: option rows and posts
    config,      \* WordPressManager.config
    connection,  \* WordPressManager.connection
    handles,     \* every connection the driver opened for the manager
    stack,       \* per task: the frames of the async functions in progress
    loc,         \* per task: the locals of those functions
    ret,         \* per task: the value the last settled promise carries
    g,           \* per task: what the running operation did so far (history)
    stream,      \* per task: the messages sent to the chat response stream
    started,     \* operations started so far
    fsChanges    \* filesystem changes so far

vars == <<fs, db, config, connection, handles, stack, loc, ret, g, stream,
          started, fsChanges>>

(***************************************************************************)
(* Bounds of the model.                                                    *)
(***************************************************************************)
MaxDepth == 2       \* deepest directory below the filesystem root
MaxFiles == 2       \* wp-config.php files in the tree (finder specification)
MaxOps == 2         \* operations started in one behaviour
MaxHandles == 2     \* connections the driver opens in one behaviour
MaxFsChanges == 1   \* filesystem changes in one behaviour
MaxSegments == 4     \* pieces of the stored active_plugins value
MaxThemeFiles == 3   \* entries of the theme directory (accessor specification)
MaxStmts == 2        \* statements of a wp-config.php (parser specification)
MaxTail == 4         \* pieces of a database query after its 'like'
MaxWords == 2       \* words in a chat question

Tasks == {1, 2}

(***************************************************************************)
(* Values carried by promises and fields.                                  *)
(***************************************************************************)
Null == [k |-> "null"]
Void == [k |-> "void"]
Bool(b) == [k |-> "bool", v |-> b]
PathV(p) == [k |-> "path", v |-> p]
ConfigV(c) == [k |-> "config", v |-> c]
RowsV(r) == [k |-> "rows", v |-> r]
ListV(l) == [k |-> "list", v |-> l]
Exc(m) == [k |-> "exc", v |-> m]
Handle(h) == [k |-> "handle", id |-> h]

Min(S) == CHOOSE x \in S : \A y \in S : x <= y
Max(S) == CHOOSE x \in S : \A y \in S : x >= y

(***************************************************************************)
(* Paths.  A directory is the sequence of its components below the root;   *)
(* the root is the empty sequence.                                         *)
(***************************************************************************)
Names == {"a", "b"}
Dirs == UNION {[1..n -> Names] : n \in 0..MaxDepth}

\* relative directories: '.' is <<".">>, 'a/b' is <<".", "a", "b">>, and the
\* empty string is <<"">>
RelDirs == {<<".">> \o d : d \in {e \in Dirs : Len(e) < MaxDepth}}
EmptyPath == <<"">>
IsRelative(p) == p # <<>> /\ p[1] \in {".", ""}
StartPaths == Dirs \cup RelDirs \cup {EmptyPath}

\* path.parse(startPath).root: '/' for an absolute path, '' for a relative one
rootOf(startPath) == IF IsRelative(startPath) THEN EmptyPath ELSE <<>>

\* path.dirname: the parent; the root for the root, '.' for '.', for a
\* single relative name and for the empty string
dirname(p) ==
    IF p = <<>> THEN <<>>
    ELSE IF p \in {<<".">>, EmptyPath} THEN <<".">>
    ELSE SubSeq(p, 1, Len(p) - 1)

\* a step that goes up and across, to the directory next to the parent
Beside(p) ==
    IF p = <<>> \/ p \in {<<".">>, EmptyPath} THEN p
    ELSE [p EXCEPT ![Len(p)] = IF @ = "a" THEN "b" ELSE "a"]

\* path.join(currentPath, 'wp-config.php')
joinConfig(dir) == [dir |-> dir, name |-> "wp-config.php"]

\* fs.exists of a wp-config.php path
existsAsync(file) == file.name = "wp-config.php" /\ file.dir \in fs.files

(***************************************************************************)
(* wp-config.php content: a sequence of statements, each a define() call   *)
(* or a $table_prefix assignment.                                          *)
(***************************************************************************)
\* kq and vq are the characters written around the key and around the value
\* ("" where nothing is written)
Define(kw, key, value) ==
    [form |-> "define", kw |-> kw, key |-> key, value |-> value,
     kq |-> <<"'", "'">>, vq |-> <<"'", "'">>]
Assign(name, value) ==
    [form |-> "assign", kw |-> name, key |-> "", value |-> value,
     kq |-> <<"'", "'">>, vq |-> <<"'", "'">>]
Quoted(st, kq, vq) == [st EXCEPT !.kq = kq, !.vq = vq]

\* the character classes ['"] and [^"'], on the values used
IsQuote(c) == c \in {"'", "\""}
HasQuote(value) == value \in {"it's", "say \"hi\""}

\* String.toLowerCase / the regular expression flag 'i', on the spellings used
LowerStr(s) ==
    CASE s = "DEFINE" -> "define"
      [] s = "Define" -> "define"
      [] s = "DB_NAME" -> "db_name"
      [] s = "DB_USER" -> "db_user"
      [] s = "DB_PASSWORD" -> "db_password"
      [] s = "DB_HOST" -> "db_host"
      [] s = "Db_Name" -> "db_name"
      [] s = "TABLE_PREFIX" -> "table_prefix"
      [] s = "$TABLE_PREFIX" -> "$table_prefix"
      [] OTHER -> s

\* the define() regular expression of extractConfigValue, flag 'i': the value
\* is one or more characters, none of them a quote
\* a define() pattern that wants the same quote on both sides
DefineMatchesSameQuotes(st, key) ==
    /\ st.form = "define"
    /\ LowerStr(st.kw) = "define"
    /\ LowerStr(st.key) = LowerStr(key)
    /\ IsQuote(st.kq[1]) /\ st.kq[2] = st.kq[1]
    /\ IsQuote(st.vq[1]) /\ st.vq[2] = st.vq[1]
    /\ st.value # "" /\ ~HasQuote(st.value)

DefineMatches(st, key) ==
    /\ st.form = "define"
    /\ LowerStr(st.kw) = "define"
    /\ LowerStr(st.key) = LowerStr(key)
    /\ IsQuote(st.kq[1]) /\ IsQuote(st.kq[2])
    /\ IsQuote(st.vq[1]) /\ IsQuote(st.vq[2])
    /\ st.value # "" /\ ~HasQuote(st.value)

\* the $table_prefix regular expression of extractConfigValue, flag 'i'
AssignMatches(st) ==
    /\ st.form = "assign"
    /\ LowerStr(st.kw) = "$table_prefix"
    /\ IsQuote(st.vq[1]) /\ IsQuote(st.vq[2])
    /\ st.value # "" /\ ~HasQuote(st.value)

extractConfigValue(content, key) ==
    LET defs == {i \in 1..Len(content) : DefineMatches(content[i], key)}
        asgs == {i \in 1..Len(content) : AssignMatches(content[i])}
    IN  IF defs # {} THEN content[Min(defs)].value
        ELSE IF key = "table_prefix"
             THEN IF asgs # {} THEN content[Min(asgs)].value ELSE "wp_"
             ELSE ""

\* a || b on strings
OrElse(a, b) == IF a # "" THEN a ELSE b

parseWordPressConfig(content, configPath) ==
    [configPath |-> configPath,
     dbHost |-> OrElse(extractConfigValue(content, "DB_HOST"), "localhost"),
     dbName |-> extractConfigValue(content, "DB_NAME"),
     dbUser |-> extractConfigValue(content, "DB_USER"),
     dbPassword |-> extractConfigValue(content, "DB_PASSWORD"),
     tablePrefix |-> OrElse(extractConfigValue(content, "table_prefix"), "wp_"),
     wpPath |-> configPath.dir]

ContentShop ==
    << Define("define", "DB_NAME", "shop"),
       Define("define", "DB_USER", "root"),
       Define("define", "DB_PASSWORD", "pw1"),
       Assign("$table_prefix", "wp_") >>

ContentBlog ==
    << Define("define", "DB_NAME", "blog"),
       Define("DEFINE", "DB_USER", "root"),
       Define("define", "DB_PASSWORD", "pw2"),
       Define("define", "DB_HOST", "db.local") >>

\* the arguments of mysql.createConnection
Creds(c) == [host |-> c.dbHost, user |-> c.dbUser,
             password |-> c.dbPassword, database |-> c.dbName]

NoCreds == [host |-> "", user |-> "", password |-> "", database |-> ""]

(***************************************************************************)
(* The state one step of a task works on, and the frames.                  *)
(***************************************************************************)
Frame(fn, at) == [fn |-> fn, at |-> at]

LocInit ==
    [op |-> "none", arg |-> <<>>, cur |-> <<>>, cfgPath |-> <<>>,
     creds |-> NoCreds, sql |-> "none", params |-> <<>>, h |-> 0, hOpen |-> FALSE,
     themeName |-> "", i |-> 0, acc |-> <<>>, response |-> Void]

GInit(cached) ==
    [connects |-> 0, execs |-> 0, locates |-> 0, parses |-> 0, errors |-> 0,
     connFailed |-> FALSE, execFailed |-> FALSE, stored |-> FALSE,
     cachedAtStart |-> cached, tested |-> <<>>, issued |-> <<>>]

Pack(t) ==
    [config |-> config, connection |-> connection, handles |-> handles,
     stack |-> stack[t], loc |-> loc[t], ret |-> ret[t], g |-> g[t],
     stream |-> stream[t]]

\* the step leaves the task in state S (evaluated once)
Unpack(t, S) ==
    \E R \in {S} :
        /\ config' = R.config
        /\ connection' = R.connection
        /\ handles' = R.handles
        /\ stack' = [stack EXCEPT ![t] = R.stack]
        /\ loc' = [loc EXCEPT ![t] = R.loc]
        /\ ret' = [ret EXCEPT ![t] = R.ret]
        /\ g' = [g EXCEPT ![t] = R.g]
        /\ stream' = [stream EXCEPT ![t] = R.stream]

Top(t) == stack[t][Len(stack[t])]
At(t, fn, at) == stack[t] # <<>> /\ Top(t) = Frame(fn, at)

\* the calling function suspends at an await, to continue at `at`
Push(S, fn, at) == [S EXCEPT !.stack = Append(@, Frame(fn, at))]
SetTop(S, at) == [S EXCEPT !.stack[Len(S.stack)].at = at]
\* the promise of a function that has not suspended settles with v
Settle(S, v) == [S EXCEPT !.ret = v]
\* the function on top of the stack returns (or throws) v
Pop(S, v) == [S EXCEPT !.stack = SubSeq(@, 1, Len(@) - 1), !.ret = v]
\* vscode.window.showErrorMessage / showWarningMessage
Notify(S) == [S EXCEPT !.g.errors = @ + 1]

(***************************************************************************)
(* findWordPressConfig(startPath): the upward search.                      *)
(***************************************************************************)
\* the code up to the first existsAsync
FinderCall(S, startPath) ==
    LET S1 == [S EXCEPT !.g.locates = @ + 1, !.g.tested = <<>>,
                        !.loc.cur = startPath]
    IN  IF startPath # rootOf(startPath)
        THEN Push(S1, "find", "exists")
        ELSE Settle(S1, Null)

\* a loop that moves to the directory beside the parent
FinderStepSideways(S) ==
    LET cur == S.loc.cur
        S1 == [S EXCEPT !.g.tested = Append(@, cur)]
        Drop(X) == [X EXCEPT !.loc.cur = <<>>]
        parentPath == dirname(cur)
    IN  IF existsAsync(joinConfig(cur))
        THEN Pop(Drop(S1), PathV(joinConfig(cur)))
        ELSE IF parentPath = cur
             THEN Pop(Drop(S1), Null)
             ELSE IF parentPath # rootOf(cur)
                  THEN [S1 EXCEPT !.loc.cur = Beside(parentPath)]
                  ELSE Pop(Drop(S1), Null)

\* one iteration of the loop, from the answer of existsAsync on
FinderStep(S) ==
    LET cur == S.loc.cur
        S1 == [S EXCEPT !.g.tested = Append(@, cur)]
        Drop(X) == [X EXCEPT !.loc.cur = <<>>]
        parentPath == dirname(cur)
    IN  IF existsAsync(joinConfig(cur))
        THEN Pop(Drop(S1), PathV(joinConfig(cur)))
        ELSE IF parentPath = cur
             THEN Pop(Drop(S1), Null)
             ELSE IF parentPath # rootOf(cur)
                  THEN [S1 EXCEPT !.loc.cur = parentPath]
                  ELSE Pop(Drop(S1), Null)

FinderExists(t) ==
    /\ At(t, "find", "exists")
    /\ Unpack(t, FinderStep(Pack(t)))
    /\ UNCHANGED <<fs, db, started, fsChanges>>

(***************************************************************************)
(* parseWordPressConfig(configPath).                                       *)
(***************************************************************************)
ParseCall(S, configPath) ==
    Push([S EXCEPT !.g.parses = @ + 1, !.loc.cfgPath = configPath], "parse", "read")

\* readFileAsync settles: the file is read, or the read fails
ParseStep(S) ==
    LET Drop(X) == [X EXCEPT !.loc.cfgPath = <<>>]
    IN  IF existsAsync(S.loc.cfgPath) /\ fs.readable
        THEN Pop(Drop(S), ConfigV(parseWordPressConfig(fs.content, S.loc.cfgPath)))
        ELSE Pop(Drop(S), Exc("readFile"))

ParseRead(t) ==
    /\ At(t, "parse", "read")
    /\ Unpack(t, ParseStep(Pack(t)))
    /\ UNCHANGED <<fs, db, started, fsChanges>>

(***************************************************************************)
(* WordPressManager.findWordPressConfig().                                 *)
(***************************************************************************)
ManagerFindCall(S) ==
    IF ~fs.ws
    THEN Settle(Notify(S), Null)
    ELSE FinderCall(Push(S, "findWordPressConfig", "afterFind"), fs.start)

\* a discovery that forgets the cached config when nothing is found
ManagerFindFoundClears(S) ==
    IF S.ret.k = "null"
    THEN Pop([Notify(S) EXCEPT !.config = Null], Null)
    ELSE ParseCall(SetTop(S, "afterParse"), S.ret.v)

ManagerFindFound(S) ==
    IF S.ret.k = "null"
    THEN Pop(Notify(S), Null)
    ELSE ParseCall(SetTop(S, "afterParse"), S.ret.v)

\* a discovery that forgets the cached config when the file cannot be read
ManagerFindParsedClears(S) ==
    IF S.ret.k = "exc"
    THEN Pop([Notify(S) EXCEPT !.config = Null], Null)
    ELSE Pop([S EXCEPT !.config = S.ret.v], ConfigV(S.ret.v))

ManagerFindParsed(S) ==
    IF S.ret.k = "exc"
    THEN Pop(Notify(S), Null)
    ELSE Pop([S EXCEPT !.config = S.ret.v], ConfigV(S.ret.v))

ManagerFindAfterFind(t) ==
    /\ At(t, "findWordPressConfig", "afterFind")
    /\ Unpack(t, ManagerFindFound(Pack(t)))
    /\ UNCHANGED <<fs, db, started, fsChanges>>

ManagerFindAfterParse(t) ==
    /\ At(t, "findWordPressConfig", "afterParse")
    /\ Unpack(t, ManagerFindParsed(Pack(t)))
    /\ UNCHANGED <<fs, db, started, fsChanges>>

(***************************************************************************)
(* WordPressManager.connectToDatabase().                                   *)
(***************************************************************************)
\* a driver call that is skipped while another invocation's is in flight
CreateConnectionShared(S) ==
    IF S.config = Null
    THEN Pop(Notify(S), Bool(FALSE))
    ELSE IF \E u \in Tasks : At(u, "connectToDatabase", "afterCreate")
         THEN Pop(S, Bool(TRUE))
         ELSE [SetTop(S, "afterCreate") EXCEPT !.loc.creds = Creds(S.config),
                                               !.g.connects = @ + 1]

\* mysql.createConnection is called with the fields of this.config; a
\* missing config is a TypeError inside the try block
CreateConnection(S) ==
    IF S.config = Null
    THEN Pop(Notify(S), Bool(FALSE))
    ELSE [SetTop(S, "afterCreate") EXCEPT !.loc.creds = Creds(S.config),
                                          !.g.connects = @ + 1]

\* a connect that discovers the config again although one is cached
ConnectCallRediscovers(S) ==
    ManagerFindCall(Push(S, "connectToDatabase", "afterFind"))

ConnectCall(S) ==
    IF S.config = Null
    THEN ManagerFindCall(Push(S, "connectToDatabase", "afterFind"))
    ELSE CreateConnection(Push(S, "connectToDatabase", "afterFind"))

ConnectFound(S) ==
    IF S.ret.k = "null"
    THEN Pop(S, Bool(FALSE))
    ELSE CreateConnection(S)

\* a connect without the try block: the driver's error escapes
ConnectCreatedThrows(S, ok) ==
    IF ok
    THEN Pop([S EXCEPT !.handles = Append(@, [creds |-> S.loc.creds, open |-> TRUE]),
                       !.connection = Handle(Len(S.handles) + 1),
                       !.g.stored = TRUE,
                       !.loc.creds = NoCreds],
             Bool(TRUE))
    ELSE Pop([S EXCEPT !.g.connFailed = TRUE, !.loc.creds = NoCreds], Exc("driver"))

\* the driver's answer: a new open handle is stored, or the error is shown
ConnectCreated(S, ok) ==
    IF ok
    THEN Pop([S EXCEPT !.handles = Append(@, [creds |-> S.loc.creds, open |-> TRUE]),
                       !.connection = Handle(Len(S.handles) + 1),
                       !.g.stored = TRUE,
                       !.loc.creds = NoCreds],
             Bool(TRUE))
    ELSE Pop([Notify(S) EXCEPT !.g.connFailed = TRUE, !.loc.creds = NoCreds],
             Bool(FALSE))

ConnectAfterFind(t) ==
    /\ At(t, "connectToDatabase", "afterFind")
    /\ Unpack(t, ConnectFound(Pack(t)))
    /\ UNCHANGED <<fs, db, started, fsChanges>>

\* the database server: one that checks the password accepts only pw, and a
\* reliable one never refuses a client it accepts nor fails a statement
Server(any, pw, reliable) == [any |-> any, pw |-> pw, reliable |-> reliable]
AnyServer == Server(TRUE, "", FALSE)
ServerAccepts(creds) == db.server.any \/ creds.password = db.server.pw

ConnectAfterCreate(t) ==
    /\ At(t, "connectToDatabase", "afterCreate")
    /\ \E ok \in BOOLEAN :
          /\ ok => Len(handles) < MaxHandles
          /\ ok => ServerAccepts(loc[t].creds)
          /\ (db.server.reliable /\ ServerAccepts(loc[t].creds)) => ok
          /\ Unpack(t, ConnectCreated(Pack(t), ok))
    /\ UNCHANGED <<fs, db, started, fsChanges>>

(***************************************************************************)
(* WordPressManager.query(sql, params).                                    *)
(***************************************************************************)
\* the rows a statement returns
Option(name) == IF db[name].k = "null" THEN <<>> ELSE <<db[name].v>>

Result(sql) ==
    CASE sql = "posts" -> db.posts
      [] sql = "like" -> db.like
      [] OTHER -> Option(sql)

\* this.connection!.query(sql, params), inside the try block
Execute(S) ==
    IF S.connection = Null
    THEN Pop([Notify(S) EXCEPT !.g.execFailed = TRUE, !.loc.sql = "none",
                               !.loc.params = <<>>],
             Exc("TypeError"))
    ELSE [SetTop(S, "afterExec") EXCEPT
              !.loc.h = S.connection.id,
              !.loc.hOpen = S.handles[S.connection.id].open,
              !.g.execs = @ + 1,
              !.g.issued = Append(@, [sql |-> S.loc.sql, params |-> S.loc.params])]

QueryCall(S, sql) ==
    LET S1 == [S EXCEPT !.loc.sql = sql]
    IN  IF S.connection = Null
        THEN ConnectCall(Push(S1, "query", "afterConnect"))
        ELSE Execute(Push(S1, "query", "afterConnect"))

\* a query that tries the connection again when it could not be opened
QueryConnectedRetries(S) ==
    IF ~S.ret.v
    THEN ConnectCall(S)
    ELSE Execute(S)

QueryConnected(S) ==
    IF ~S.ret.v
    THEN Pop([S EXCEPT !.loc.sql = "none", !.loc.params = <<>>],
             Exc("Database connection is not established"))
    ELSE Execute(S)

QueryExecuted(S, ok) ==
    LET Drop(X) == [X EXCEPT !.loc.sql = "none", !.loc.params = <<>>,
                             !.loc.h = 0, !.loc.hOpen = FALSE]
    IN  IF ok
        THEN Pop(Drop(S), RowsV(Result(S.loc.sql)))
        ELSE Pop(Drop([Notify(S) EXCEPT !.g.execFailed = TRUE]), Exc("driver"))

QueryAfterConnect(t) ==
    /\ At(t, "query", "afterConnect")
    /\ Unpack(t, QueryConnected(Pack(t)))
    /\ UNCHANGED <<fs, db, started, fsChanges>>

QueryAfterExec(t) ==
    /\ At(t, "query", "afterExec")
    /\ \E ok \in BOOLEAN :
          /\ ok => loc[t].hOpen
          /\ (db.server.reliable /\ loc[t].hOpen) => ok
          /\ Unpack(t, QueryExecuted(Pack(t), ok))
    /\ UNCHANGED <<fs, db, started, fsChanges>>

(***************************************************************************)
(* WordPressManager.disconnect().                                          *)
(***************************************************************************)
\* connection.end() is called: the handle closes
DisconnectCall(S) ==
    IF S.connection # Null
    THEN Push([S EXCEPT !.handles[S.connection.id].open = FALSE],
              "disconnect", "afterEnd")
    ELSE Settle(S, Void)

\* a disconnect that resets the config and keeps the handle
DisconnectEndedResets(S) == Pop([S EXCEPT !.config = Null], Void)

DisconnectEnded(S) == Pop([S EXCEPT !.connection = Null], Void)

DisconnectAfterEnd(t) ==
    /\ At(t, "disconnect", "afterEnd")
    /\ Unpack(t, DisconnectEnded(Pack(t)))
    /\ UNCHANGED <<fs, db, started, fsChanges>>

(***************************************************************************)
(* Question text: a string is the sequence of its characters.              *)
(***************************************************************************)
UpperCase == <<"A", "B", "C", "D", "E", "F", "G", "H", "I", "J", "K", "L", "M",
               "N", "O", "P", "Q", "R", "S", "T", "U", "V", "W", "X", "Y", "Z">>
LowerCase == <<"a", "b", "c", "d", "e", "f", "g", "h", "i", "j", "k", "l", "m",
               "n", "o", "p", "q", "r", "s", "t", "u", "v", "w", "x", "y", "z">>

\* String.prototype.toLowerCase
toLowerCase(s) ==
    [i \in 1..Len(s) |->
        IF \E j \in DOMAIN UpperCase : UpperCase[j] = s[i]
        THEN LowerCase[CHOOSE j \in DOMAIN UpperCase : UpperCase[j] = s[i]]
        ELSE s[i]]

\* String.prototype.includes
includes(s, sub) ==
    \E i \in 0..(Len(s) - Len(sub)) : SubSeq(s, i + 1, i + Len(sub)) = sub

\* the keywords the handlers look for in a question
Kw ==
    [database |-> <<"d", "a", "t", "a", "b", "a", "s", "e">>,
     db |-> <<"d", "b">>,
     username |-> <<"u", "s", "e", "r", "n", "a", "m", "e">>,
     wpConfig |-> <<"w", "p", "-", "c", "o", "n", "f", "i", "g">>,
     theme |-> <<"t", "h", "e", "m", "e">>,
     plugin |-> <<"p", "l", "u", "g", "i", "n">>,
     postType |-> <<"p", "o", "s", "t", " ", "t", "y", "p", "e">>,
     cpt |-> <<"c", "p", "t">>,
     user |-> <<"u", "s", "e", "r">>,
     dbUser |-> <<"d", "b", "_", "u", "s", "e", "r">>,
     name |-> <<"n", "a", "m", "e">>,
     dbName |-> <<"d", "b", "_", "n", "a", "m", "e">>,
     host |-> <<"h", "o", "s", "t">>,
     dbHost |-> <<"d", "b", "_", "h", "o", "s", "t">>,
     prefix |-> <<"p", "r", "e", "f", "i", "x">>,
     table |-> <<"t", "a", "b", "l", "e">>,
     template |-> <<"t", "e", "m", "p", "l", "a", "t", "e">>,
     file |-> <<"f", "i", "l", "e">>,
     option |-> <<"o", "p", "t", "i", "o", "n">>,
     like |-> <<"l", "i", "k", "e">>,
     databaseName |-> <<"d", "a", "t", "a", "b", "a", "s", "e", " ", "n", "a", "m", "e">>,
     dbNameSpaced |-> <<"d", "b", " ", "n", "a", "m", "e">>,
     password |-> <<"p", "a", "s", "s", "w", "o", "r", "d">>,
     dbPassword |-> <<"d", "b", "_", "p", "a", "s", "s", "w", "o", "r", "d">>,
     tablePrefix |-> <<"t", "a", "b", "l", "e", " ", "p", "r", "e", "f", "i", "x">>,
     config |-> <<"c", "o", "n", "f", "i", "g">>,
     configuration |-> <<"c", "o", "n", "f", "i", "g", "u", "r", "a", "t", "i", "o", "n">>]

(***************************************************************************)
(* The accessors of WordPressManager.                                      *)
(***************************************************************************)
\* if (!this.config) { await this.findWordPressConfig(); ... }, then the query
AccessorCall(S, fn, sql) ==
    IF S.config = Null
    THEN ManagerFindCall(Push(S, fn, "afterFind"))
    ELSE QueryCall(Push(S, fn, "afterQuery"), sql)

\* if (!this.config) return <none>, then the query
AccessorFound(S, sql, none) ==
    IF S.config = Null
    THEN Pop(S, none)
    ELSE QueryCall(SetTop(S, "afterQuery"), sql)

\* ---- getWordPressVersion()
GetVersionCall(S) == AccessorCall(S, "getWordPressVersion", "version")

GetVersionFound(S) == AccessorFound(S, "version", Null)

GetVersionQueried(S) ==
    IF S.ret.k = "exc"
    THEN Pop(Notify(S), Null)
    ELSE IF Len(S.ret.v) > 0
         THEN Pop(S, [k |-> "string", v |-> S.ret.v[1]])
         ELSE Pop(S, Null)

GetVersionAfterFind(t) ==
    /\ At(t, "getWordPressVersion", "afterFind")
    /\ Unpack(t, GetVersionFound(Pack(t)))
    /\ UNCHANGED <<fs, db, started, fsChanges>>

GetVersionAfterQuery(t) ==
    /\ At(t, "getWordPressVersion", "afterQuery")
    /\ Unpack(t, GetVersionQueried(Pack(t)))
    /\ UNCHANGED <<fs, db, started, fsChanges>>

\* ---- getActivePlugins()
\* String.prototype.split(';') on a value given as its pieces: a piece is ";",
\* a blank " ", or a run of other characters
RECURSIVE split(_, _)
split(s, sep) ==
    IF \E i \in 1..Len(s) : s[i] = sep
    THEN LET i == Min({j \in 1..Len(s) : s[j] = sep})
         IN  <<SubSeq(s, 1, i - 1)>> \o split(SubSeq(s, i + 1, Len(s)), sep)
    ELSE <<s>>

\* a filter that discards the empty segments only
NonBlankUntrimmed(p) == Len(p) > 0

\* p.trim().length > 0
NonBlank(p) == \E i \in 1..Len(p) : p[i] # " "

GetPluginsCall(S) == AccessorCall(S, "getActivePlugins", "active_plugins")

GetPluginsFound(S) == AccessorFound(S, "active_plugins", ListV(<<>>))

\* an accessor whose catch block throws the error on
GetPluginsQueriedRethrows(S) ==
    IF S.ret.k = "exc"
    THEN Pop(Notify(S), S.ret)
    ELSE IF Len(S.ret.v) > 0
         THEN Pop(S, ListV(SelectSeq(split(S.ret.v[1], ";"), NonBlank)))
         ELSE Pop(S, ListV(<<>>))

GetPluginsQueried(S) ==
    IF S.ret.k = "exc"
    THEN Pop(Notify(S), ListV(<<>>))
    ELSE IF Len(S.ret.v) > 0
         THEN Pop(S, ListV(SelectSeq(split(S.ret.v[1], ";"), NonBlank)))
         ELSE Pop(S, ListV(<<>>))

GetPluginsAfterFind(t) ==
    /\ At(t, "getActivePlugins", "afterFind")
    /\ Unpack(t, GetPluginsFound(Pack(t)))
    /\ UNCHANGED <<fs, db, started, fsChanges>>

GetPluginsAfterQuery(t) ==
    /\ At(t, "getActivePlugins", "afterQuery")
    /\ Unpack(t, GetPluginsQueried(Pack(t)))
    /\ UNCHANGED <<fs, db, started, fsChanges>>

\* ---- getCustomPostTypes()
\* a serialized value is the sequence of its tokens; the token s:<n>:"<value>"
\* is [tag |-> "s", value |-> <value>]
Tok(tag, value) == [tag |-> tag, value |-> value]

\* /s:(\d+):"([^"]+)"/
IsStringToken(tok) == tok.tag = "s" /\ tok.value # ""

TokenValue(tok) == tok.value

\* serializedCPTs.match(/.../g) and the map over the matches
cptMatches(value) ==
    LET toks == SelectSeq(value, IsStringToken)
    IN  [i \in 1..Len(toks) |-> TokenValue(toks[i])]

GetPostTypesCall(S) == AccessorCall(S, "getCustomPostTypes", "cptui_post_types")

GetPostTypesFound(S) == AccessorFound(S, "cptui_post_types", ListV(<<>>))

\* an accessor that asks the posts table whatever the option row holds
GetPostTypesQueriedMerges(S) ==
    IF S.ret.k = "exc"
    THEN Pop(Notify(S), ListV(<<>>))
    ELSE QueryCall(SetTop(S, "afterPosts"), "posts")

GetPostTypesQueried(S) ==
    IF S.ret.k = "exc"
    THEN Pop(Notify(S), ListV(<<>>))
    ELSE IF Len(S.ret.v) > 0 /\ cptMatches(S.ret.v[1]) # <<>>
         THEN Pop(S, ListV(cptMatches(S.ret.v[1])))
         ELSE QueryCall(SetTop(S, "afterPosts"), "posts")

GetPostTypesFallback(S) ==
    IF S.ret.k = "exc"
    THEN Pop(Notify(S), ListV(<<>>))
    ELSE Pop(S, ListV(S.ret.v))

GetPostTypesAfterFind(t) ==
    /\ At(t, "getCustomPostTypes", "afterFind")
    /\ Unpack(t, GetPostTypesFound(Pack(t)))
    /\ UNCHANGED <<fs, db, started, fsChanges>>

GetPostTypesAfterQuery(t) ==
    /\ At(t, "getCustomPostTypes", "afterQuery")
    /\ Unpack(t, GetPostTypesQueried(Pack(t)))
    /\ UNCHANGED <<fs, db, started, fsChanges>>

GetPostTypesAfterPosts(t) ==
    /\ At(t, "getCustomPostTypes", "afterPosts")
    /\ Unpack(t, GetPostTypesFallback(Pack(t)))
    /\ UNCHANGED <<fs, db, started, fsChanges>>

\* ---- getActiveTheme() and findThemeTemplateFiles()
standardTemplates ==
    {"index.php", "single.php", "page.php", "archive.php", "category.php",
     "tag.php", "author.php", "search.php", "404.php", "front-page.php",
     "home.php", "singular.php"}

isWpStandardTemplate(filename) == filename \in standardTemplates

\* a directory entry: its name, whether the name ends in '.php', whether the
\* file can be read and whether its content holds 'Template Name:'
File(name, php, readable, header) ==
    [name |-> name, php |-> php, readable |-> readable, header |-> header]

\* the for loop up to the next readFile, from entry i on
TemplatesScan(S, i) ==
    LET files == fs.theme.files
        rest == {j \in i..Len(files) : files[j].php}
    IN  IF rest = {}
        THEN Pop([S EXCEPT !.loc.i = 0, !.loc.acc = <<>>], ListV(S.loc.acc))
        ELSE [S EXCEPT !.loc.i = Min(rest)]

\* readdir settles
TemplatesListed(S) ==
    IF fs.theme.list = "error"
    THEN Pop(Notify(S), ListV(<<>>))
    ELSE TemplatesScan(SetTop([S EXCEPT !.loc.acc = <<>>], "afterRead"), 1)

\* a scan that gives up at the first file it cannot read
TemplatesReadAborts(S) ==
    LET file == fs.theme.files[S.loc.i]
    IN  IF ~file.readable
        THEN Pop([Notify(S) EXCEPT !.loc.i = 0, !.loc.acc = <<>>], ListV(<<>>))
        ELSE TemplatesScan(IF file.header \/ isWpStandardTemplate(file.name)
                           THEN [S EXCEPT !.loc.acc = Append(@, file.name)]
                           ELSE S,
                           S.loc.i + 1)

\* readFile of entry i settles
TemplatesRead(S) ==
    LET file == fs.theme.files[S.loc.i]
        S1 == IF file.readable /\ (file.header \/ isWpStandardTemplate(file.name))
              THEN [S EXCEPT !.loc.acc = Append(@, file.name)]
              ELSE S
    IN  TemplatesScan(S1, S.loc.i + 1)

TemplatesAfterReaddir(t) ==
    /\ At(t, "findThemeTemplateFiles", "afterReaddir")
    /\ Unpack(t, TemplatesListed(Pack(t)))
    /\ UNCHANGED <<fs, db, started, fsChanges>>

TemplatesAfterRead(t) ==
    /\ At(t, "findThemeTemplateFiles", "afterRead")
    /\ Unpack(t, TemplatesRead(Pack(t)))
    /\ UNCHANGED <<fs, db, started, fsChanges>>

GetThemeCall(S) == AccessorCall(S, "getActiveTheme", "stylesheet")

GetThemeFound(S) == AccessorFound(S, "stylesheet", Null)

GetThemeQueried(S) ==
    IF S.ret.k = "exc"
    THEN Pop(Notify(S), Null)
    ELSE IF Len(S.ret.v) = 0
         THEN Pop(S, Null)
         ELSE [SetTop(S, "afterStat") EXCEPT !.loc.themeName = S.ret.v[1]]

\* fs.promises.stat settles
GetThemeStatted(S) ==
    LET Drop(X) == [X EXCEPT !.loc.themeName = ""]
    IN  IF fs.theme.stat = "error"
        THEN Pop(Drop(Notify(S)), Null)
        ELSE IF fs.theme.stat # "dir"
             THEN Pop(Drop(S), Null)
             ELSE Push(SetTop(S, "afterTemplates"),
                       "findThemeTemplateFiles", "afterReaddir")

GetThemeTemplates(S) ==
    Pop([S EXCEPT !.loc.themeName = ""],
        [k |-> "theme",
         v |-> [name |-> S.loc.themeName,
                path |-> [wpPath |-> S.config.wpPath, theme |-> S.loc.themeName],
                active |-> TRUE,
                templateFiles |-> S.ret.v]])

GetThemeAfterFind(t) ==
    /\ At(t, "getActiveTheme", "afterFind")
    /\ Unpack(t, GetThemeFound(Pack(t)))
    /\ UNCHANGED <<fs, db, started, fsChanges>>

GetThemeAfterQuery(t) ==
    /\ At(t, "getActiveTheme", "afterQuery")
    /\ Unpack(t, GetThemeQueried(Pack(t)))
    /\ UNCHANGED <<fs, db, started, fsChanges>>

GetThemeAfterStat(t) ==
    /\ At(t, "getActiveTheme", "afterStat")
    /\ Unpack(t, GetThemeStatted(Pack(t)))
    /\ UNCHANGED <<fs, db, started, fsChanges>>

GetThemeAfterTemplates(t) ==
    /\ At(t, "getActiveTheme", "afterTemplates")
    /\ Unpack(t, GetThemeTemplates(Pack(t)))
    /\ UNCHANGED <<fs, db, started, fsChanges>>

(***************************************************************************)
(* The intent handlers (WordPressContextResponse).                         *)
(***************************************************************************)
\* a template literal: its literal text up to the first substitution, and the
\* substituted values
Msg(text, args) == [text |-> text, args |-> args]

Response(type, data, message) ==
    [k |-> "response", type |-> type, data |-> data, message |-> message]

DataRec(r) == [k |-> "record", v |-> r]

\* a secondary pass that looks for 'name' before 'user'
handleDatabaseQueryNameFirst(cfg, query) ==
    Response("database_info",
        DataRec([dbName |-> cfg.dbName, dbUser |-> cfg.dbUser, dbHost |-> cfg.dbHost,
                 tablePrefix |-> cfg.tablePrefix, configPath |-> cfg.configPath]),
        IF includes(query, Kw.name) \/ includes(query, Kw.dbName)
        THEN Msg("The database name in your wp-config.php is: ", <<cfg.dbName>>)
        ELSE IF includes(query, Kw.username) \/ includes(query, Kw.user)
              \/ includes(query, Kw.dbUser)
        THEN Msg("The database username in your wp-config.php is: ", <<cfg.dbUser>>)
        ELSE IF includes(query, Kw.host) \/ includes(query, Kw.dbHost)
        THEN Msg("The database host in your wp-config.php is: ", <<cfg.dbHost>>)
        ELSE IF includes(query, Kw.prefix) \/ includes(query, Kw.table)
        THEN Msg("The table prefix in your wp-config.php is: ", <<cfg.tablePrefix>>)
        ELSE Msg("WordPress database configuration:\n\n- Database name: ",
                 <<cfg.dbName, cfg.dbUser, cfg.dbHost, cfg.tablePrefix>>))

handleDatabaseQuery(cfg, query) ==
    Response("database_info",
        DataRec([dbName |-> cfg.dbName, dbUser |-> cfg.dbUser, dbHost |-> cfg.dbHost,
                 tablePrefix |-> cfg.tablePrefix, configPath |-> cfg.configPath]),
        IF includes(query, Kw.username) \/ includes(query, Kw.user)
              \/ includes(query, Kw.dbUser)
        THEN Msg("The database username in your wp-config.php is: ", <<cfg.dbUser>>)
        ELSE IF includes(query, Kw.name) \/ includes(query, Kw.dbName)
        THEN Msg("The database name in your wp-config.php is: ", <<cfg.dbName>>)
        ELSE IF includes(query, Kw.host) \/ includes(query, Kw.dbHost)
        THEN Msg("The database host in your wp-config.php is: ", <<cfg.dbHost>>)
        ELSE IF includes(query, Kw.prefix) \/ includes(query, Kw.table)
        THEN Msg("The table prefix in your wp-config.php is: ", <<cfg.tablePrefix>>)
        ELSE Msg("WordPress database configuration:\n\n- Database name: ",
                 <<cfg.dbName, cfg.dbUser, cfg.dbHost, cfg.tablePrefix>>))

\* ---- handleThemeQuery
HandleThemeCall(S) == GetThemeCall(Push(S, "handleThemeQuery", "afterGet"))

HandleThemeGot(S) ==
    LET query == toLowerCase(S.loc.arg)
        theme == S.ret
    IN  IF theme.k = "exc"
        THEN Pop(S, theme)
        ELSE IF theme.k = "null"
        THEN Pop(S, Response("theme_info", Null,
                 Msg("Could not retrieve theme information. The WordPress database may not be accessible or no theme is active.", <<>>)))
        ELSE Pop(S, Response("theme_info", DataRec(theme.v),
                 IF includes(query, Kw.template) \/ includes(query, Kw.file)
                 THEN Msg("Template files in the active theme \"",
                          <<theme.v.name, theme.v.templateFiles>>)
                 ELSE Msg("Active WordPress theme: ",
                          <<theme.v.name, theme.v.path, Len(theme.v.templateFiles)>>)))

HandleThemeAfterGet(t) ==
    /\ At(t, "handleThemeQuery", "afterGet")
    /\ Unpack(t, HandleThemeGot(Pack(t)))
    /\ UNCHANGED <<fs, db, started, fsChanges>>

\* ---- handlePluginQuery
HandlePluginCall(S) == GetPluginsCall(Push(S, "handlePluginQuery", "afterGet"))

HandlePluginGot(S) ==
    LET plugins == S.ret
    IN  IF plugins.k = "exc"
        THEN Pop(S, plugins)
        ELSE IF Len(plugins.v) = 0
        THEN Pop(S, Response("plugin_info", ListV(<<>>),
                 Msg("No active plugins were found or the WordPress database is not accessible.", <<>>)))
        ELSE Pop(S, Response("plugin_info", plugins,
                 Msg("Active WordPress plugins (", <<Len(plugins.v), plugins.v>>)))

HandlePluginAfterGet(t) ==
    /\ At(t, "handlePluginQuery", "afterGet")
    /\ Unpack(t, HandlePluginGot(Pack(t)))
    /\ UNCHANGED <<fs, db, started, fsChanges>>

\* ---- handlePostTypeQuery
HandlePostTypeCall(S) == GetPostTypesCall(Push(S, "handlePostTypeQuery", "afterGet"))

HandlePostTypeGot(S) ==
    LET customPostTypes == S.ret
    IN  IF customPostTypes.k = "exc"
        THEN Pop(S, customPostTypes)
        ELSE IF Len(customPostTypes.v) = 0
        THEN Pop(S, Response("custom_post_types", ListV(<<>>),
                 Msg("No custom post types were found in this WordPress installation.", <<>>)))
        ELSE Pop(S, Response("custom_post_types", customPostTypes,
                 Msg("Custom post types in this WordPress installation (",
                     <<Len(customPostTypes.v), customPostTypes.v>>)))

HandlePostTypeAfterGet(t) ==
    /\ At(t, "handlePostTypeQuery", "afterGet")
    /\ Unpack(t, HandlePostTypeGot(Pack(t)))
    /\ UNCHANGED <<fs, db, started, fsChanges>>

\* ---- handleGeneralInfoQuery
HandleGeneralCall(S) == GetVersionCall(Push(S, "handleGeneralInfoQuery", "afterGet"))

HandleGeneralGot(S) ==
    LET wpVersion == S.ret
        cfg == S.config
    IN  IF wpVersion.k = "exc"
        THEN Pop(S, wpVersion)
        ELSE Pop(S, Response("general_info",
                 DataRec([version |-> wpVersion, path |-> cfg.wpPath,
                          configPath |-> cfg.configPath]),
                 Msg("WordPress Information:\n\n- WordPress Version: ",
                     <<IF wpVersion.k = "null" THEN "Unknown" ELSE wpVersion.v,
                       cfg.wpPath, cfg.configPath, cfg.dbName, cfg.dbUser>>)))

HandleGeneralAfterGet(t) ==
    /\ At(t, "handleGeneralInfoQuery", "afterGet")
    /\ Unpack(t, HandleGeneralGot(Pack(t)))
    /\ UNCHANGED <<fs, db, started, fsChanges>>

(***************************************************************************)
(* wordpressRequestHandler: the chat participant.                          *)
(***************************************************************************)
\* stream.markdown
Markdown(S, message) == [S EXCEPT !.stream = Append(@, message)]

\* a dispatch that tests the theme keyword before the database keywords
DispatchThemeFirst(S) ==
    LET query == toLowerCase(S.loc.arg)
    IN  IF includes(query, Kw.theme)
        THEN HandleThemeCall(SetTop(S, "afterHandler"))
        ELSE IF includes(query, Kw.database) \/ includes(query, Kw.db)
              \/ includes(query, Kw.username) \/ includes(query, Kw.wpConfig)
        THEN Settle(SetTop(S, "afterHandler"), handleDatabaseQuery(S.config, query))
        ELSE IF includes(query, Kw.plugin)
        THEN HandlePluginCall(SetTop(S, "afterHandler"))
        ELSE IF includes(query, Kw.postType) \/ includes(query, Kw.cpt)
        THEN HandlePostTypeCall(SetTop(S, "afterHandler"))
        ELSE HandleGeneralCall(SetTop(S, "afterHandler"))

\* the if / else if chain on the lower-cased prompt
Dispatch(S) ==
    LET query == toLowerCase(S.loc.arg)
    IN  IF includes(query, Kw.database) \/ includes(query, Kw.db)
              \/ includes(query, Kw.username) \/ includes(query, Kw.wpConfig)
        THEN Settle(SetTop(S, "afterHandler"), handleDatabaseQuery(S.config, query))
        ELSE IF includes(query, Kw.theme)
        THEN HandleThemeCall(SetTop(S, "afterHandler"))
        ELSE IF includes(query, Kw.plugin)
        THEN HandlePluginCall(SetTop(S, "afterHandler"))
        ELSE IF includes(query, Kw.postType) \/ includes(query, Kw.cpt)
        THEN HandlePostTypeCall(SetTop(S, "afterHandler"))
        ELSE HandleGeneralCall(SetTop(S, "afterHandler"))

\* a handler that says nothing when no configuration is found
ChatConfiguredSilent(S) ==
    IF S.config = Null
    THEN Pop(S, Void)
    ELSE Dispatch(S)

\* const config = wpManager.getConfig(); if (!config) { ... return; }
ChatConfigured(S) ==
    IF S.config = Null
    THEN Pop(Markdown(S, Msg("WordPress configuration not found. Please open a folder containing WordPress installation.", <<>>)),
             Void)
    ELSE Dispatch(S)

ChatCall(S) ==
    IF S.config = Null
    THEN ManagerFindCall(Push(S, "wordpressRequestHandler", "afterFind"))
    ELSE ChatConfigured(Push(S, "wordpressRequestHandler", "afterFind"))

\* the handler's promise settles: the response is sent, or the catch block
\* reports the error
ChatReplied(S) ==
    LET response == S.ret
        S1 == [S EXCEPT !.loc.response = response]
    IN  IF response.k = "exc"
        THEN Pop(Markdown(S1, Msg("Error retrieving WordPress data: ", <<response.v>>)),
                 Void)
        ELSE IF response.k = "response"
        THEN Pop(Markdown(S1, response.message), Void)
        ELSE Pop(Markdown(S1, Msg("I couldn't understand your WordPress-related question. Try asking about the database, themes, plugins, or custom post types.", <<>>)),
                 Void)

ChatAfterFind(t) ==
    /\ At(t, "wordpressRequestHandler", "afterFind")
    /\ Unpack(t, ChatConfigured(Pack(t)))
    /\ UNCHANGED <<fs, db, started, fsChanges>>

ChatAfterHandler(t) ==
    /\ At(t, "wordpressRequestHandler", "afterHandler")
    /\ Unpack(t, ChatReplied(Pack(t)))
    /\ UNCHANGED <<fs, db, started, fsChanges>>

(***************************************************************************)
(* The legacy command mcp-wordpress.answerConfigQuestion.                  *)
(***************************************************************************)
Str(v) == [k |-> "string", v |-> v]

\* a command that answers a password question with the password
answerConfigQuestionTellsPassword(cfg, question) ==
    IF includes(question, Kw.password) \/ includes(question, Kw.dbPassword)
    THEN Msg("The database password is: ", <<cfg.dbPassword>>)
    ELSE Msg("I found your WordPress configuration at ", <<cfg.configPath>>)

\* the chain of tests on the lower-cased question
answerConfigQuestion(cfg, question) ==
    IF includes(question, Kw.username) \/ includes(question, Kw.user)
          \/ includes(question, Kw.dbUser)
    THEN Msg("The database username in your wp-config.php is: ", <<cfg.dbUser>>)
    ELSE IF includes(question, Kw.databaseName) \/ includes(question, Kw.dbNameSpaced)
          \/ includes(question, Kw.dbName)
    THEN Msg("The database name in your wp-config.php is: ", <<cfg.dbName>>)
    ELSE IF includes(question, Kw.host) \/ includes(question, Kw.dbHost)
    THEN Msg("The database host in your wp-config.php is: ", <<cfg.dbHost>>)
    ELSE IF includes(question, Kw.password) \/ includes(question, Kw.dbPassword)
    THEN Msg("The database password is defined in your wp-config.php at: ",
             <<cfg.configPath>>)
    ELSE IF includes(question, Kw.prefix) \/ includes(question, Kw.tablePrefix)
    THEN Msg("The table prefix in your wp-config.php is: ", <<cfg.tablePrefix>>)
    ELSE IF includes(question, Kw.config) \/ includes(question, Kw.wpConfig)
          \/ includes(question, Kw.configuration)
    THEN Msg("WordPress configuration was found at: ",
             <<cfg.configPath, cfg.dbName, cfg.dbUser, cfg.dbHost, cfg.tablePrefix>>)
    ELSE Msg("I found your WordPress configuration at ", <<cfg.configPath>>)

\* const config = wpManager.getConfig(); if (!config) return "Sorry, ..."
AnswerConfigured(S) ==
    IF S.config = Null
    THEN Pop(S, Str(Msg("Sorry, I couldn't find a WordPress configuration file.", <<>>)))
    ELSE Pop(S, Str(answerConfigQuestion(S.config, toLowerCase(S.loc.arg))))

AnswerCall(S) ==
    IF S.config = Null
    THEN ManagerFindCall(Push(S, "answerConfigQuestion", "afterFind"))
    ELSE AnswerConfigured(Push(S, "answerConfigQuestion", "afterFind"))

AnswerAfterFind(t) ==
    /\ At(t, "answerConfigQuestion", "afterFind")
    /\ Unpack(t, AnswerConfigured(Pack(t)))
    /\ UNCHANGED <<fs, db, started, fsChanges>>

(***************************************************************************)
(* executeNaturalLanguageQuery and the mcp-wordpress.queryDatabase command.*)
(***************************************************************************)
\* \s and the characters that [^%'"] excludes
IsSpace(c) == c \in {" ", "\t"}
IsPatternChar(c) == ~IsQuote(c) /\ c # "%"

\* the longest run of whitespace, and of pattern characters, from position p
SpacesFrom(q, p) ==
    Max({n \in 0..(Len(q) + 1 - p) : \A j \in p..(p + n - 1) : IsSpace(q[j])})
PatternFrom(q, p) ==
    Max({n \in 0..(Len(q) + 1 - p) : \A j \in p..(p + n - 1) : IsPatternChar(q[j])})

\* the ways /like\s+(['"]?)%?([^%'"]+)/i matches at position i: w whitespace
\* characters, a quotes, b percent signs, then at least one pattern character
LikeMatchesAt(q, i) ==
    IF i + 3 > Len(q) \/ toLowerCase(SubSeq(q, i, i + 3)) # Kw.like
    THEN {}
    ELSE {m \in (1..SpacesFrom(q, i + 4)) \X {0, 1} \X {0, 1} :
            LET p == i + 4 + m[1]
            IN  /\ m[2] = 1 => (p <= Len(q) /\ IsQuote(q[p]))
                /\ m[3] = 1 => (p + m[2] <= Len(q) /\ q[p + m[2]] = "%")
                /\ p + m[2] + m[3] <= Len(q)
                /\ PatternFrom(q, p + m[2] + m[3]) >= 1}

\* query.match(...)[2], or '' without a match: the leftmost match, each
\* quantifier taking as much as it can
likePattern(q) ==
    LET at == {i \in 1..Len(q) : LikeMatchesAt(q, i) # {}}
    IN  IF at = {} THEN <<>>
        ELSE LET i == Min(at)
                 ms == LikeMatchesAt(q, i)
                 Weight(m) == 4 * m[1] + 2 * m[2] + m[3]
                 m == CHOOSE x \in ms : \A y \in ms : Weight(x) >= Weight(y)
                 p == i + 4 + m[1] + m[2] + m[3]
             IN  SubSeq(q, p, p + PatternFrom(q, p) - 1)

\* a translator that binds the captured pattern as it is
NlqCallUnwrapped(S) ==
    LET query == S.loc.arg
        lowerQuery == toLowerCase(query)
        pattern == likePattern(query)
    IN  IF S.config = Null \/ S.config.tablePrefix = ""
        THEN Settle(S, Exc("Unable to determine WordPress table prefix"))
        ELSE IF includes(lowerQuery, Kw.option) /\ includes(lowerQuery, Kw.like)
                  /\ pattern # <<>>
        THEN QueryCall(Push([S EXCEPT !.loc.params = <<pattern>>],
                            "executeNaturalLanguageQuery", "afterQuery"), "like")
        ELSE Settle(S, Exc("Could not understand the query. Try \"find options like %pattern%\""))

\* executeNaturalLanguageQuery(wpManager, query) up to its await
NlqCall(S) ==
    LET query == S.loc.arg
        lowerQuery == toLowerCase(query)
        pattern == likePattern(query)
    IN  IF S.config = Null \/ S.config.tablePrefix = ""
        THEN Settle(S, Exc("Unable to determine WordPress table prefix"))
        ELSE IF includes(lowerQuery, Kw.option) /\ includes(lowerQuery, Kw.like)
                  /\ pattern # <<>>
        THEN QueryCall(Push([S EXCEPT !.loc.params = <<(<<"%">> \o pattern \o <<"%">>)>>],
                            "executeNaturalLanguageQuery", "afterQuery"), "like")
        ELSE Settle(S, Exc("Could not understand the query. Try \"find options like %pattern%\""))

\* return await wpManager.query(...)
NlqQueried(S) == Pop(S, S.ret)

NlqAfterQuery(t) ==
    /\ At(t, "executeNaturalLanguageQuery", "afterQuery")
    /\ Unpack(t, NlqQueried(Pack(t)))
    /\ UNCHANGED <<fs, db, started, fsChanges>>

\* the command: if (!wpManager.isConnected()) { find, connect }, then the input
QueryCommandCall(S) ==
    IF S.connection = Null
    THEN ManagerFindCall(Push(S, "queryCommand", "afterFind"))
    ELSE Push(S, "queryCommand", "afterInput")

QueryCommandFound(S) ==
    IF S.ret.k = "null"
    THEN Pop(Notify(S), Void)
    ELSE ConnectCall(SetTop(S, "afterConnect"))

QueryCommandConnected(S) ==
    IF ~S.ret.v
    THEN Pop(Notify(S), Void)
    ELSE SetTop(S, "afterInput")

\* showInputBox has answered: if (!queryInput) return; then the translator
QueryCommandInput(S, queryInput) ==
    IF queryInput = <<>>
    THEN Pop(S, Void)
    ELSE NlqCall(SetTop([S EXCEPT !.loc.arg = queryInput], "afterNlq"))

\* the rows are shown, or the catch block shows the error
QueryCommandDone(S) ==
    LET S1 == [S EXCEPT !.loc.response = S.ret]
    IN  IF S.ret.k = "exc" THEN Pop(Notify(S1), Void) ELSE Pop(S1, Void)

QueryCommandAfterFind(t) ==
    /\ At(t, "queryCommand", "afterFind")
    /\ Unpack(t, QueryCommandFound(Pack(t)))
    /\ UNCHANGED <<fs, db, started, fsChanges>>

QueryCommandAfterConnect(t) ==
    /\ At(t, "queryCommand", "afterConnect")
    /\ Unpack(t, QueryCommandConnected(Pack(t)))
    /\ UNCHANGED <<fs, db, started, fsChanges>>

QueryCommandAfterInput(t, inputs) ==
    /\ At(t, "queryCommand", "afterInput")
    /\ \E queryInput \in inputs : Unpack(t, QueryCommandInput(Pack(t), queryInput))
    /\ UNCHANGED <<fs, db, started, fsChanges>>

QueryCommandAfterNlq(t) ==
    /\ At(t, "queryCommand", "afterNlq")
    /\ Unpack(t, QueryCommandDone(Pack(t)))
    /\ UNCHANGED <<fs, db, started, fsChanges>>

(***************************************************************************)
(* The callers: a command or an API client awaits one operation.           *)
(***************************************************************************)
ManagerOps == {"findWordPressConfig", "connectToDatabase", "query", "disconnect"}

Call(S, op) ==
    CASE op = "findWordPressConfig" -> ManagerFindCall(S)
      [] op = "connectToDatabase" -> ConnectCall(S)
      [] op = "query" -> QueryCall(S, "like")
      [] op = "disconnect" -> DisconnectCall(S)
      [] op = "locate" -> FinderCall(S, fs.start)
      [] op = "chat" -> ChatCall(S)
      [] op = "getWordPressVersion" -> GetVersionCall(S)
      [] op = "getActivePlugins" -> GetPluginsCall(S)
      [] op = "getActiveTheme" -> GetThemeCall(S)
      [] op = "getCustomPostTypes" -> GetPostTypesCall(S)
      [] op = "queryCommand" -> QueryCommandCall(S)
      [] op = "answerConfigQuestion" -> AnswerCall(S)

Begin(t, op, arg) ==
    /\ stack[t] = <<>>
    /\ \A u \in Tasks : u < t => stack[u] # <<>>   \* tasks are interchangeable
    /\ started < MaxOps
    /\ started' = started + 1
    /\ LET S0 == [Pack(t) EXCEPT !.loc = [LocInit EXCEPT !.op = op, !.arg = arg],
                                 !.g = GInit(config # Null),
                                 !.ret = Void,
                                 !.stream = <<>>]
       IN  Unpack(t, Call(Push(S0, "task", "await"), op))
    /\ UNCHANGED <<fs, db, fsChanges>>

Start(t) == \E op \in ManagerOps : Begin(t, op, <<>>)

\* the awaited operation has settled (its outcome is ret[t]): the caller goes on
Finish(t) ==
    /\ At(t, "task", "await")
    /\ stack' = [stack EXCEPT ![t] = <<>>]
    /\ loc' = [loc EXCEPT ![t] = LocInit]
    /\ ret' = [ret EXCEPT ![t] = Void]
    /\ g' = [g EXCEPT ![t] = GInit(FALSE)]
    /\ stream' = [stream EXCEPT ![t] = <<>>]
    /\ UNCHANGED <<fs, db, config, connection, handles, started, fsChanges>>

(***************************************************************************)
(* The environment: the workspace and wp-config.php change.                *)
(***************************************************************************)
WorkspacePath == <<"a", "a">>

\* the directory of the active theme
ThemeDir(stat, list, files) == [stat |-> stat, list |-> list, files |-> files]

ThemeFiles ==
    << File("index.php", TRUE, TRUE, FALSE),
       File("readme.txt", FALSE, TRUE, FALSE),
       File("broken.php", TRUE, FALSE, TRUE),
       File("landing.php", TRUE, TRUE, TRUE),
       File("functions.php", TRUE, TRUE, FALSE) >>

FsOf(ws, files, content, readable) ==
    [ws |-> ws, start |-> WorkspacePath, files |-> files, content |-> content,
     readable |-> readable, theme |-> ThemeDir("dir", "ok", ThemeFiles)]

ManagerFs ==
    {FsOf(TRUE, {d}, c, TRUE) : d \in {<<"a">>, <<"a", "a">>},
                                c \in {ContentShop, ContentBlog}}
    \cup {FsOf(FALSE, {<<"a">>}, ContentShop, TRUE),
          FsOf(TRUE, {}, ContentShop, TRUE),
          FsOf(TRUE, {<<"a">>}, ContentShop, FALSE)}

FsChange ==
    /\ fsChanges < MaxFsChanges
    /\ fsChanges' = fsChanges + 1
    /\ \E f \in ManagerFs \ {fs} : fs' = f
    /\ UNCHANGED <<db, config, connection, handles, stack, loc, ret, g, stream,
                   started>>

DbEmpty ==
    [stylesheet |-> Null, active_plugins |-> Null, cptui_post_types |-> Null,
     version |-> Null, posts |-> <<>>, like |-> <<>>, server |-> AnyServer]

(***************************************************************************)
(* The manager under any interleaving of its operations.                   *)
(***************************************************************************)
Unconfigured ==
    /\ config = Null
    /\ connection = Null
    /\ handles = <<>>
    /\ stack = [t \in Tasks |-> <<>>]
    /\ loc = [t \in Tasks |-> LocInit]
    /\ ret = [t \in Tasks |-> Void]
    /\ g = [t \in Tasks |-> GInit(FALSE)]
    /\ stream = [t \in Tasks |-> <<>>]
    /\ started = 0
    /\ fsChanges = 0

Init ==
    /\ fs \in ManagerFs
    /\ db = DbEmpty
    /\ Unconfigured

Step(t) ==
    \/ Start(t)
    \/ FinderExists(t)
    \/ ParseRead(t)
    \/ ManagerFindAfterFind(t)
    \/ ManagerFindAfterParse(t)
    \/ ConnectAfterFind(t)
    \/ ConnectAfterCreate(t)
    \/ QueryAfterConnect(t)
    \/ QueryAfterExec(t)
    \/ DisconnectAfterEnd(t)
    \/ Finish(t)

Next == FsChange \/ \E t \in Tasks : Step(t)

Spec == Init /\ [][Next]_vars

(***************************************************************************)
(* The finder alone: findWordPressConfig(startPath) from every directory   *)
(* of the tree, for every placement of at most MaxFiles wp-config.php.     *)
(***************************************************************************)
InitLocate ==
    /\ \E startPath \in StartPaths, files \in SUBSET (Dirs \cup RelDirs) :
          /\ Cardinality(files) <= MaxFiles
          /\ fs = [FsOf(TRUE, files, ContentShop, TRUE) EXCEPT !.start = startPath]
    /\ db = DbEmpty
    /\ Unconfigured

StartLocate(t) == Begin(t, "locate", <<>>)

NextLocate == StartLocate(1) \/ FinderExists(1) \/ Finish(1)

SpecLocate == InitLocate /\ [][NextLocate]_vars

\* fs.exists always calls back: a suspended finder is resumed
SpecLocateFair == SpecLocate /\ WF_vars(FinderExists(1))

(***************************************************************************)
(* The chat participant and the accessors, one call after the other, for   *)
(* every question of at most MaxWords words.                               *)
(***************************************************************************)
Words ==
    { <<"D", "a", "t", "a", "b", "a", "s", "e">>,
      <<"d", "b">>,
      <<"U", "S", "E", "R", "N", "A", "M", "E">>,
      <<"w", "p", "-", "c", "o", "n", "f", "i", "g">>,
      <<"T", "h", "e", "m", "e">>,
      <<"p", "l", "u", "g", "i", "n">>,
      <<"p", "o", "s", "t", " ", "t", "y", "p", "e">>,
      <<"C", "P", "T">>,
      <<"t", "e", "m", "p", "l", "a", "t", "e">>,
      <<"h", "i", " ">> }

RECURSIVE Concat(_)
Concat(ws) == IF ws = <<>> THEN <<>> ELSE Head(ws) \o Concat(Tail(ws))

Questions == {Concat(ws) : ws \in UNION {[1..n -> Words] : n \in 0..MaxWords}}

DbFull ==
    [stylesheet |-> [k |-> "row", v |-> "twentyx"],
     active_plugins |-> [k |-> "row", v |-> <<"a/a.php", ";", "b/b.php", ";">>],
     cptui_post_types |-> [k |-> "row", v |-> <<Tok("a", "1"), Tok("s", "book"),
                                                Tok("a", "2"), Tok("s", "label")>>],
     version |-> [k |-> "row", v |-> "6.4"],
     posts |-> <<"movie">>,
     like |-> <<>>,
     server |-> AnyServer]

DbPosts ==
    [stylesheet |-> [k |-> "row", v |-> "twentyx"],
     active_plugins |-> [k |-> "row", v |-> <<" ", ";">>],
     cptui_post_types |-> [k |-> "row", v |-> <<Tok("a", "0")>>],
     version |-> Null,
     posts |-> <<"movie", "recipe">>,
     like |-> <<>>,
     server |-> AnyServer]

ChatDbs == {DbFull, DbPosts, DbEmpty}

ChatFs ==
    {[FsOf(TRUE, {<<"a">>}, ContentShop, TRUE) EXCEPT !.theme = th] :
        th \in {ThemeDir("dir", "ok", ThemeFiles), ThemeDir("dir", "error", <<>>),
                ThemeDir("file", "ok", <<>>), ThemeDir("error", "ok", <<>>)}}
    \cup {FsOf(TRUE, {}, ContentShop, TRUE)}

InitChat ==
    /\ fs \in ChatFs
    /\ db \in ChatDbs
    /\ Unconfigured

AccessorOps ==
    {"getWordPressVersion", "getActivePlugins", "getActiveTheme", "getCustomPostTypes"}

StartChat(t) == \E prompt \in Questions : Begin(t, "chat", prompt)

StartAccessor(t) == \E op \in AccessorOps : Begin(t, op, <<>>)

ChatStep(t) ==
    \/ FinderExists(t)
    \/ ParseRead(t)
    \/ ManagerFindAfterFind(t)
    \/ ManagerFindAfterParse(t)
    \/ ConnectAfterCreate(t)
    \/ QueryAfterConnect(t)
    \/ QueryAfterExec(t)
    \/ GetVersionAfterFind(t)
    \/ GetVersionAfterQuery(t)
    \/ GetPluginsAfterFind(t)
    \/ GetPluginsAfterQuery(t)
    \/ GetPostTypesAfterFind(t)
    \/ GetPostTypesAfterQuery(t)
    \/ GetPostTypesAfterPosts(t)
    \/ GetThemeAfterFind(t)
    \/ GetThemeAfterQuery(t)
    \/ GetThemeAfterStat(t)
    \/ GetThemeAfterTemplates(t)
    \/ TemplatesAfterReaddir(t)
    \/ TemplatesAfterRead(t)
    \/ HandleThemeAfterGet(t)
    \/ HandlePluginAfterGet(t)
    \/ HandlePostTypeAfterGet(t)
    \/ HandleGeneralAfterGet(t)
    \/ ChatAfterFind(t)
    \/ ChatAfterHandler(t)

NextChat == StartChat(1) \/ StartAccessor(1) \/ ChatStep(1) \/ Finish(1)

SpecChat == InitChat /\ [][NextChat]_vars

\* the event loop runs every continuation that is ready, and every file
\* system or database call settles
SpecChatFair == SpecChat /\ WF_vars(ChatStep(1))

(***************************************************************************)
(* Properties of the manager.                                              *)
(***************************************************************************)
\* the operation of task t has settled; its outcome is ret[t]
Settled(t) == At(t, "task", "await")

\* the step is one of task t
Moved(t) == <<stack[t], loc[t], ret[t], g[t]>>' # <<stack[t], loc[t], ret[t], g[t]>>

\* the function fn of task t returns or throws in this step
Returns(t, fn) ==
    /\ stack[t] # <<>>
    /\ Top(t).fn = fn
    /\ stack'[t] = SubSeq(stack[t], 1, Len(stack[t]) - 1)

OpenHandles == {h \in 1..Len(handles) : handles[h].open}

\* C1: at most one connection opened by the manager is open at a time.
C1_AtMostOneOpenConnection == Cardinality(OpenHandles) <= 1

GuardedOps == {"connectToDatabase", "query"}

\* C2 as amended: an operation that tests the cached config before it
\* discovers (connectToDatabase, and query through it), begun while a config
\* is cached, runs neither the finder nor the parser and leaves the cached
\* config unchanged.
C2_GuardedCallersKeepCache ==
    [][\A t \in Tasks :
          (Moved(t) /\ loc'[t].op \in GuardedOps /\ g'[t].cachedAtStart)
              => (/\ config' = config
                  /\ g'[t].locates = 0
                  /\ g'[t].parses = 0)]_vars

\* a guarded operation has settled on a cached config that the file on
\* disk no longer matches
C2_Witness ==
    \E t \in Tasks :
        /\ Settled(t)
        /\ loc[t].op = "connectToDatabase"
        /\ g[t].cachedAtStart
        /\ config # Null
        /\ config.dbPassword # extractConfigValue(fs.content, "DB_PASSWORD")

\* C2 as stated: findWordPressConfig() on a cached config runs neither the
\* finder nor the parser and leaves the cached config unchanged.
C2_FindReturnsCached ==
    [][\A t \in Tasks :
          (Moved(t) /\ loc'[t].op = "findWordPressConfig" /\ g'[t].cachedAtStart)
              => (/\ config' = config
                  /\ g'[t].locates = 0
                  /\ g'[t].parses = 0)]_vars

Readiness ==
    CASE config = Null /\ connection = Null -> "Unconfigured"
      [] config # Null /\ connection = Null -> "Configured"
      [] config # Null /\ connection # Null -> "Connected"
      [] OTHER -> "Invalid"

Rank(r) ==
    CASE r = "Unconfigured" -> 0
      [] r = "Configured" -> 1
      [] r = "Connected" -> 2
      [] OTHER -> 9

\* C3: readiness advances Unconfigured -> Configured -> Connected one stage
\* at a time; the only step back is the one in which disconnect() clears
\* the connection, from Connected to Configured with the config unchanged;
\* no step resets the config to absent.
C3_ReadinessMonotonic ==
    [][/\ Readiness' # "Invalid"
       /\ config # Null => config' # Null
       /\ \/ Rank(Readiness') = Rank(Readiness)
          \/ Rank(Readiness') = Rank(Readiness) + 1
          \/ /\ \E t \in Tasks : Returns(t, "disconnect")
             /\ Readiness = "Connected"
             /\ Readiness' = "Configured"
             /\ config' = config]_vars

\* disconnect() has taken a connected manager back to Configured
C3_Witness ==
    \E t \in Tasks :
        /\ Settled(t)
        /\ loc[t].op = "disconnect"
        /\ Readiness = "Configured"
        /\ handles # <<>>
        /\ OpenHandles = {}

\* C4: an open connection was opened with the credentials of the cached
\* config.
C4_ConnectionMatchesConfig ==
    connection # Null =>
        /\ config # Null
        /\ handles[connection.id].creds = Creds(config)

\* C5: one query() makes at most one connect attempt and at most one
\* execution; after a failed connect nothing is executed, and a failure of
\* either makes query() throw.
C5_QueryNoRetry ==
    \A t \in Tasks :
        loc[t].op = "query" =>
            /\ g[t].connects <= 1
            /\ g[t].execs <= 1
            /\ g[t].connFailed => g[t].execs = 0
            /\ (Settled(t) /\ (g[t].connFailed \/ g[t].execFailed))
                   => ret[t].k = "exc"

\* a query() connected, executed once, failed and threw
C5_Witness ==
    \E t \in Tasks :
        /\ Settled(t)
        /\ loc[t].op = "query"
        /\ g[t].connects = 1
        /\ g[t].execs = 1
        /\ g[t].execFailed
        /\ ret[t].k = "exc"

\* C6 as amended: connectToDatabase() completes with a boolean, true exactly
\* when this call stored a new handle; when it returns false it stored
\* nothing and left the connection as it was.
C6_ConnectReturnsBoolean ==
    [][\A t \in Tasks :
          Returns(t, "connectToDatabase") =>
              /\ ret'[t].k = "bool"
              /\ ret'[t].v <=> (/\ Len(handles') = Len(handles) + 1
                                /\ connection' = Handle(Len(handles')))
              /\ ~ret'[t].v => (connection' = connection /\ handles' = handles)]_vars

\* connectToDatabase() returned false after a failed connect while the
\* manager holds a connection
C6_Witness ==
    \E t \in Tasks :
        /\ Settled(t)
        /\ loc[t].op = "connectToDatabase"
        /\ ret[t] = Bool(FALSE)
        /\ g[t].connFailed
        /\ connection # Null

\* C6 as stated: connectToDatabase() completes with a boolean, true with a
\* connection stored and false with the connection absent.
C6_FalseLeavesAbsent ==
    [][\A t \in Tasks :
          Returns(t, "connectToDatabase") =>
              /\ ret'[t].k = "bool"
              /\ ret'[t].v => connection' # Null
              /\ ~ret'[t].v => connection' = Null]_vars


(***************************************************************************)
(* Properties of the finder.                                               *)
(***************************************************************************)
\* the ancestor chain of a directory: itself at depth 0, the root last
Chain(startPath) ==
    LET top == IF IsRelative(startPath) THEN Len(startPath) - 1 ELSE Len(startPath)
    IN  [d \in 0..top |-> SubSeq(startPath, 1, Len(startPath) - d)]

\* the depths of the chain whose directory holds a wp-config.php
Holding(startPath) ==
    {d \in DOMAIN Chain(startPath) : Chain(startPath)[d] \in fs.files}

\* C9: the finder returns the wp-config.php of the nearest directory of the
\* ancestor chain, the root included, after testing the directories at
\* depths 0..d and no other; it returns null if no directory of the chain
\* holds the file.
C9_NearestOnChain ==
    \A t \in Tasks :
        (Settled(t) /\ loc[t].op = "locate") =>
            LET startPath == fs.start
                holding == Holding(startPath)
            IN  IF holding = {}
                THEN ret[t] = Null
                ELSE /\ ret[t] = PathV(joinConfig(Chain(startPath)[Min(holding)]))
                     /\ g[t].tested =
                            [i \in 1..(Min(holding) + 1) |-> Chain(startPath)[i - 1]]

(***************************************************************************)
(* Properties of the chat participant.                                     *)
(***************************************************************************)
\* the ordered rule table of the classification
RuleTable ==
    << [keywords |-> {Kw.database, Kw.db, Kw.username, Kw.wpConfig},
        intent |-> "database_info"],
       [keywords |-> {Kw.theme}, intent |-> "theme_info"],
       [keywords |-> {Kw.plugin}, intent |-> "plugin_info"],
       [keywords |-> {Kw.postType, Kw.cpt}, intent |-> "custom_post_types"] >>

FirstMatch(text) ==
    LET hits == {i \in DOMAIN RuleTable :
                    \E kw \in RuleTable[i].keywords : includes(text, kw)}
    IN  IF hits = {} THEN "general_info" ELSE RuleTable[Min(hits)].intent

\* the intent of the question task t is answering
Intent(t) == FirstMatch(toLowerCase(loc[t].arg))

\* the chat handler of task t has finished with one message on the stream,
\* and the message is not empty
OneMessage(t) ==
    /\ Settled(t)
    /\ loc[t].op = "chat"
    /\ Len(stream[t]) = 1
    /\ stream[t][1].text # ""

\* C7: the chat handler never has more than one message on the stream, it
\* never finishes otherwise than with exactly one non-empty message, and
\* every question it is given leads to its finishing so, whatever the prompt
\* and the outcomes of discovery, connection and query.
C7_ExactlyOneMessage ==
    /\ [](\A t \in Tasks :
            loc[t].op = "chat" =>
                /\ Len(stream[t]) <= 1
                /\ Settled(t) => OneMessage(t))
    /\ \A t \in Tasks : (loc[t].op = "chat") ~> OneMessage(t)

\* a question whose query failed has been answered
C7_Witness ==
    \E t \in Tasks :
        /\ OneMessage(t)
        /\ g[t].execFailed

LookupIntents == {"theme_info", "plugin_info", "custom_post_types"}

\* the response of a lookup that found nothing (no option row)
AbsentResponse(intent) ==
    CASE intent = "theme_info" ->
            Response("theme_info", Null,
                Msg("Could not retrieve theme information. The WordPress database may not be accessible or no theme is active.", <<>>))
      [] intent = "plugin_info" ->
            Response("plugin_info", ListV(<<>>),
                Msg("No active plugins were found or the WordPress database is not accessible.", <<>>))
      [] intent = "custom_post_types" ->
            Response("custom_post_types", ListV(<<>>),
                Msg("No custom post types were found in this WordPress installation.", <<>>))

\* a theme, plugin or post type question of task t has been answered after
\* the connect or the query failed
FailedLookup(t) ==
    /\ Settled(t)
    /\ loc[t].op = "chat"
    /\ g[t].connFailed \/ g[t].execFailed
    /\ Intent(t) \in LookupIntents

\* C8 as amended: when the connection or the query fails during a theme,
\* plugin or post type question, the response is the null/empty-data
\* response of an absent option row, and the failure is reported only by an
\* error notification.
C8_FailureAnsweredAsAbsent ==
    \A t \in Tasks :
        FailedLookup(t) =>
            /\ loc[t].response = AbsentResponse(Intent(t))
            /\ g[t].errors > 0

\* a plugin question has been answered after its query failed
C8_Witness ==
    \E t \in Tasks :
        /\ FailedLookup(t)
        /\ Intent(t) = "plugin_info"
        /\ g[t].execFailed

\* C8 as stated: when the connection or the query fails, the response is not
\* the null/empty-data response of an absent option row.
C8_FailureDiffersFromAbsent ==
    \A t \in Tasks :
        FailedLookup(t) => loc[t].response # AbsentResponse(Intent(t))

\* C10: the response of a finished question has the type the ordered rule
\* table gives for the lower-cased question (database_info before
\* theme_info), for every question, the empty one included; without a
\* configuration there is no response.
C10_ClassifiedByRuleTable ==
    \A t \in Tasks :
        (Settled(t) /\ loc[t].op = "chat") =>
            IF config = Null
            THEN loc[t].response = Void
            ELSE /\ loc[t].response.k = "response"
                 /\ loc[t].response.type = Intent(t)
                 /\ loc[t].response.type \in
                       {"database_info", "theme_info", "plugin_info",
                        "custom_post_types", "general_info"}

\* a question with a theme keyword and a database keyword was answered as
\* database_info
C10_Witness ==
    \E t \in Tasks :
        /\ Settled(t)
        /\ loc[t].op = "chat"
        /\ includes(toLowerCase(loc[t].arg), Kw.theme)
        /\ includes(toLowerCase(loc[t].arg), Kw.database)
        /\ loc[t].response.k = "response"
        /\ loc[t].response.type = "database_info"

(***************************************************************************)
(* Database questions: the chat participant asked about the database of    *)
(* a workspace whose wp-config.php is found.                               *)
(***************************************************************************)
DatabaseWords ==
    { <<"w", "h", "a", "t", " ", "i", "s", " ", "t", "h", "e", " ">>,
      <<"d", "a", "t", "a", "b", "a", "s", "e", " ">>,
      <<"D", "B", " ">>,
      <<"U", "s", "e", "r">>,
      <<"n", "a", "m", "e">>,
      <<"H", "O", "S", "T">>,
      <<"p", "r", "e", "f", "i", "x">>,
      <<"t", "a", "b", "l", "e">>,
      <<"w", "p", "-", "c", "o", "n", "f", "i", "g">> }

DatabaseQuestions ==
    {q \in {Concat(ws) : ws \in UNION {[1..n -> DatabaseWords] : n \in 0..(MaxWords + 1)}} :
        FirstMatch(toLowerCase(q)) = "database_info"}

InitDatabaseInfo ==
    /\ fs \in {FsOf(TRUE, {<<"a">>}, c, TRUE) : c \in {ContentShop, ContentBlog}}
    /\ db = DbEmpty
    /\ Unconfigured

StartDatabaseChat(t) == \E prompt \in DatabaseQuestions : Begin(t, "chat", prompt)

NextDatabaseInfo ==
    \/ StartDatabaseChat(1)
    \/ FinderExists(1)
    \/ ParseRead(1)
    \/ ManagerFindAfterFind(1)
    \/ ManagerFindAfterParse(1)
    \/ ChatAfterFind(1)
    \/ ChatAfterHandler(1)
    \/ Finish(1)

SpecDatabaseInfo == InitDatabaseInfo /\ [][NextDatabaseInfo]_vars

\* the secondary pass of database_info: the fields the message shows
SecondaryTable ==
    << [keywords |-> {Kw.username, Kw.user}, fields |-> <<"dbUser">>],
       [keywords |-> {Kw.name}, fields |-> <<"dbName">>],
       [keywords |-> {Kw.host}, fields |-> <<"dbHost">>],
       [keywords |-> {Kw.prefix, Kw.table}, fields |-> <<"tablePrefix">>] >>

ShownFields(text) ==
    LET hits == {i \in DOMAIN SecondaryTable :
                    \E kw \in SecondaryTable[i].keywords : includes(text, kw)}
    IN  IF hits = {} THEN <<"dbName", "dbUser", "dbHost", "tablePrefix">>
        ELSE SecondaryTable[Min(hits)].fields

\* a database question of task t has been answered
DatabaseAnswered(t) ==
    /\ Settled(t)
    /\ loc[t].op = "chat"
    /\ config # Null
    /\ Intent(t) = "database_info"

\* C11: the message of a database_info response shows the field the ordered
\* secondary pass selects for the lower-cased question (all four fields when
\* no keyword is present), and in every branch data carries dbName, dbUser,
\* dbHost, tablePrefix and configPath of the cached configuration.
C11_SecondaryPass ==
    \A t \in Tasks :
        DatabaseAnswered(t) =>
            LET r == loc[t].response
                shown == ShownFields(toLowerCase(loc[t].arg))
            IN  /\ r.k = "response"
                /\ r.type = "database_info"
                /\ r.message.args = [i \in DOMAIN shown |-> config[shown[i]]]
                /\ stream[t] = <<r.message>>
                /\ r.data.v = [dbName |-> config.dbName, dbUser |-> config.dbUser,
                               dbHost |-> config.dbHost,
                               tablePrefix |-> config.tablePrefix,
                               configPath |-> config.configPath]

\* 'what is the database name' on a configuration with DB_NAME=shop and no
\* DB_HOST was answered with shop, and data.dbHost is localhost
C11_Witness ==
    \E t \in Tasks :
        /\ DatabaseAnswered(t)
        /\ loc[t].arg = <<"w", "h", "a", "t", " ", "i", "s", " ", "t", "h", "e", " ",
                          "d", "a", "t", "a", "b", "a", "s", "e", " ",
                          "n", "a", "m", "e">>
        /\ fs.content = ContentShop
        /\ loc[t].response.message.args = <<"shop">>
        /\ loc[t].response.data.v.dbHost = "localhost"

(***************************************************************************)
(* The queryDatabase command: the user's input is a head, 'like' in some   *)
(* spelling or nothing, and at most MaxTail more pieces.                   *)
(***************************************************************************)
InputHeads ==
    { <<>>,
      <<"f", "i", "n", "d", " ", "o", "p", "t", "i", "o", "n", "s", " ">>,
      <<"s", "h", "o", "w", " ", "m", "e", " ", "t", "h", "e", "m", "e", "s">>,
      <<"O", "p", "t", "i", "o", "n", "s">> }

InputLikes == { <<>>, <<"l", "i", "k", "e">>, <<"L", "I", "K", "E">> }

InputPieces == { <<" ">>, <<"%">>, <<"'">>, <<"m", "s", "s">>, <<"o", "p", "t", "i", "o", "n">> }

QueryInputs ==
    {h \o l \o Concat(ps) :
        h \in InputHeads, l \in InputLikes,
        ps \in UNION {[1..n -> InputPieces] : n \in 0..MaxTail}}

DbOptions == [DbEmpty EXCEPT !.like = <<"mss_settings">>]

InitQuery ==
    /\ fs \in {FsOf(TRUE, {<<"a">>}, ContentShop, TRUE), FsOf(TRUE, {}, ContentShop, TRUE)}
    /\ db \in {DbEmpty, DbOptions}
    /\ Unconfigured

StartQueryCommand(t) == Begin(t, "queryCommand", <<>>)

NextQuery ==
    \/ StartQueryCommand(1)
    \/ FinderExists(1)
    \/ ParseRead(1)
    \/ ManagerFindAfterFind(1)
    \/ ManagerFindAfterParse(1)
    \/ ConnectAfterCreate(1)
    \/ QueryAfterExec(1)
    \/ NlqAfterQuery(1)
    \/ QueryCommandAfterFind(1)
    \/ QueryCommandAfterConnect(1)
    \/ QueryCommandAfterInput(1, QueryInputs)
    \/ QueryCommandAfterNlq(1)
    \/ Finish(1)

SpecQuery == InitQuery /\ [][NextQuery]_vars

\* the command of task t has called the translator, which has settled
Translated(t) ==
    /\ Settled(t)
    /\ loc[t].op = "queryCommand"
    /\ loc[t].response # Void

\* the input is of the one recognised shape
Recognised(q) ==
    /\ includes(toLowerCase(q), Kw.option)
    /\ includes(toLowerCase(q), Kw.like)
    /\ likePattern(q) # <<>>

FindOptionsLike ==
    <<"f", "i", "n", "d", " ", "o", "p", "t", "i", "o", "n", "s", " ", "l", "i", "k", "e", " ">>

\* C12: the translator executes a query exactly when the input contains
\* 'option' and 'like' in any letter case and a non-empty token is captured
\* after 'like'; it then executes the options template exactly once with the
\* one parameter '%' token '%', the token having no '%' and no quote ('find
\* options like %mss%' and 'find options like mss' both bind '%mss%'); for
\* every other input ('show me themes' is one) it throws 'Could not
\* understand the query' and executes nothing.
C12_OneTemplateOrUnrecognised ==
    \A t \in Tasks :
        Translated(t) =>
            LET q == loc[t].arg
                token == likePattern(q)
            IN  /\ IF Recognised(q)
                   THEN /\ g[t].issued =
                              << [sql |-> "like",
                                  params |-> << <<"%">> \o token \o <<"%">> >>] >>
                        /\ \A i \in DOMAIN token : token[i] \notin {"%", "'", "\""}
                        /\ includes(q, token)
                   ELSE /\ g[t].issued = <<>>
                        /\ g[t].execs = 0
                        /\ loc[t].response =
                              Exc("Could not understand the query. Try \"find options like %pattern%\"")
                /\ q \in {FindOptionsLike \o <<"%", "m", "s", "s", "%">>,
                           FindOptionsLike \o <<"m", "s", "s">>}
                      => g[t].issued = << [sql |-> "like",
                                           params |-> << <<"%", "m", "s", "s", "%">> >>] >>
                /\ q = <<"s", "h", "o", "w", " ", "m", "e", " ", "t", "h", "e", "m", "e", "s">>
                      => ~Recognised(q)

\* 'find options like %mss%' was translated and executed
C12_Witness ==
    \E t \in Tasks :
        /\ Translated(t)
        /\ loc[t].arg = FindOptionsLike \o <<"%", "m", "s", "s", "%">>
        /\ g[t].execs = 1

(***************************************************************************)
(* The parser: discovery in a workspace whose wp-config.php holds any      *)
(* sequence of at most MaxStmts statements.                                *)
(***************************************************************************)
QuoteStyles ==
    { << <<"'", "'">>, <<"'", "'">> >>,
      << <<"\"", "\"">>, <<"\"", "\"">> >>,
      << <<"'", "\"">>, <<"\"", "'">> >> }

Statements ==
    {Quoted(Define(kw, key, value), style[1], style[2]) :
        kw \in {"define", "DEFINE"},
        key \in {"DB_NAME", "db_name", "DB_HOST", "table_prefix"},
        value \in {"foo", "bar"},
        style \in QuoteStyles}
    \cup {Quoted(Define("define", "DB_NAME", "it's"), <<"\"", "\"">>, <<"\"", "\"">>),
          Define("define", "DB_NAME", ""),
          Quoted(Define("define", "DB_NAME", "foo"), <<"", "">>, <<"'", "'">>),
          Define("define", "DB_USER", "root"),
          Assign("$table_prefix", "wp2_"),
          Quoted(Assign("$TABLE_PREFIX", "x_"), <<"'", "'">>, <<"\"", "\"">>),
          Assign("$table_prefix", "")}

ParseContents == UNION {[1..n -> Statements] : n \in 0..MaxStmts}

InitParse ==
    /\ fs \in {FsOf(TRUE, {<<"a">>}, content, TRUE) : content \in ParseContents}
    /\ db = DbEmpty
    /\ Unconfigured

StartParse(t) == Begin(t, "findWordPressConfig", <<>>)

NextParse ==
    \/ StartParse(1)
    \/ FinderExists(1)
    \/ ParseRead(1)
    \/ ManagerFindAfterFind(1)
    \/ ManagerFindAfterParse(1)
    \/ Finish(1)

SpecParse == InitParse /\ [][NextParse]_vars

\* the statements of the file that are define() calls of exactly the key K
\* in proper quotes, and those that assign $table_prefix
DefinesOf(K) ==
    {i \in DOMAIN fs.content :
        /\ fs.content[i].form = "define"
        /\ fs.content[i].key = K
        /\ \A c \in {fs.content[i].kq[1], fs.content[i].kq[2],
                      fs.content[i].vq[1], fs.content[i].vq[2]} : IsQuote(c)}

PrefixAssignments ==
    {i \in DOMAIN fs.content :
        fs.content[i].form = "assign" /\ LowerStr(fs.content[i].kw) = "$table_prefix"}

\* C13: a cached configuration has a non-empty tablePrefix and a non-empty
\* dbHost; tablePrefix is 'wp_' when the file has no $table_prefix
\* assignment, and dbHost is 'localhost' when it has no DB_HOST define.
C13_ParseDefaults ==
    config # Null =>
        /\ config.tablePrefix # ""
        /\ config.dbHost # ""
        /\ PrefixAssignments = {} => config.tablePrefix = "wp_"
        /\ DefinesOf("DB_HOST") = {} => config.dbHost = "localhost"

\* C14: when no define() of the file spells the key DB_NAME in exactly this
\* case, dbName is the empty string.
C14_KeyCaseSensitive ==
    config # Null => (DefinesOf("DB_NAME") = {} => config.dbName = "")

\* the field of the cached configuration that the key K fills
FieldOf(K) == IF K = "DB_NAME" THEN config.dbName ELSE config.dbUser

ProperQuotes(st) ==
    \A c \in {st.kq[1], st.kq[2], st.vq[1], st.vq[2]} : IsQuote(c)

\* the define() calls of the key K, in any letter case, that are written in
\* proper quotes with a value that is not empty and holds no quote character
UsableDefinesOf(K) ==
    {i \in DOMAIN fs.content :
        /\ fs.content[i].form = "define"
        /\ LowerStr(fs.content[i].key) = LowerStr(K)
        /\ ProperQuotes(fs.content[i])
        /\ fs.content[i].value # ""
        /\ ~HasQuote(fs.content[i].value)}

\* the file with every properly quoted statement rewritten in one quote style
Restyle(content, style) ==
    [i \in DOMAIN content |->
        IF ProperQuotes(content[i])
        THEN Quoted(content[i], style[1], style[2])
        ELSE content[i]]

\* C15 as amended: rewriting the quotes of the file in any style (single,
\* double, or not matching each other) parses to the same configuration; the
\* field of a key is the value of the first define() of that key that has a
\* non-empty value with no quote character in it, and the empty string when
\* there is none.
C15_QuoteStyleAndFirstMatch ==
    config # Null =>
        /\ \A style \in QuoteStyles :
              parseWordPressConfig(Restyle(fs.content, style), config.configPath) = config
        /\ \A K \in {"DB_NAME", "DB_USER"} :
              /\ UsableDefinesOf(K) = {} => FieldOf(K) = ""
              /\ \A i \in UsableDefinesOf(K) :
                    (\A j \in UsableDefinesOf(K) : i <= j)
                        => FieldOf(K) = fs.content[i].value

\* two definitions of DB_NAME in different quote styles and with different
\* values were parsed, and dbName is the value of the first
C15_Witness ==
    /\ config # Null
    /\ \E i, j \in UsableDefinesOf("DB_NAME") :
          /\ i < j
          /\ \A n \in UsableDefinesOf("DB_NAME") : i <= n
          /\ fs.content[i].vq # fs.content[j].vq
          /\ fs.content[i].kq[1] # fs.content[i].kq[2]
          /\ fs.content[i].value # fs.content[j].value
          /\ config.dbName = fs.content[i].value

\* C15 as stated: in a file whose define() calls spell the key in one case
\* only, the field is the value of the first properly quoted define() of
\* the key, whatever the value, and the empty string when there is none.
C15_EveryValue ==
    config # Null =>
        \A K \in {"DB_NAME", "DB_USER"} :
            (\A i \in DOMAIN fs.content :
                (fs.content[i].form = "define"
                    /\ LowerStr(fs.content[i].key) = LowerStr(K))
                => fs.content[i].key = K)
            => FieldOf(K) = IF DefinesOf(K) = {} THEN ""
                            ELSE fs.content[Min(DefinesOf(K))].value

(***************************************************************************)
(* The accessors alone, over stored option values, posts rows and theme    *)
(* directories.                                                            *)
(***************************************************************************)
Row(value) == [k |-> "row", v |-> value]

PluginValues ==
    UNION {[1..n -> {"a/a.php", "b/b.php", ";", " "}] : n \in 0..MaxSegments}

CptValues ==
    UNION {[1..n -> {Tok("s", "book"), Tok("s", "movie"), Tok("s", ""), Tok("a", "2")}] :
              n \in 0..2}

PostsRows == {<<>>, <<"movie">>, <<"recipe", "movie">>}

ThemeListings ==
    UNION {[1..n -> {File("index.php", TRUE, TRUE, FALSE),
                     File("landing.php", TRUE, TRUE, TRUE),
                     File("functions.php", TRUE, TRUE, FALSE),
                     File("broken.php", TRUE, FALSE, TRUE),
                     File("404.php", TRUE, FALSE, FALSE),
                     File("readme.txt", FALSE, TRUE, TRUE)}] : n \in 0..MaxThemeFiles}

AccessorWorlds ==
    LET found == FsOf(TRUE, {<<"a">>}, ContentShop, TRUE)
    IN  {[fs |-> found, db |-> [DbFull EXCEPT !.active_plugins = Row(v)]] :
            v \in PluginValues}
        \cup {[fs |-> found, db |-> [DbFull EXCEPT !.cptui_post_types = Row(v), !.posts = p]] :
                 v \in CptValues, p \in PostsRows}
        \cup {[fs |-> found, db |-> [DbEmpty EXCEPT !.posts = p]] : p \in PostsRows}
        \cup {[fs |-> [found EXCEPT !.theme = ThemeDir("dir", "ok", files)], db |-> DbFull] :
                 files \in ThemeListings}
        \cup {[fs |-> f, db |-> DbFull] : f \in ChatFs}

InitAccessors ==
    /\ \E w \in AccessorWorlds : fs = w.fs /\ db = w.db
    /\ Unconfigured

NextAccessors ==
    \/ StartAccessor(1)
    \/ FinderExists(1)
    \/ ParseRead(1)
    \/ ManagerFindAfterFind(1)
    \/ ManagerFindAfterParse(1)
    \/ ConnectAfterCreate(1)
    \/ QueryAfterConnect(1)
    \/ QueryAfterExec(1)
    \/ GetVersionAfterFind(1)
    \/ GetVersionAfterQuery(1)
    \/ GetPluginsAfterFind(1)
    \/ GetPluginsAfterQuery(1)
    \/ GetPostTypesAfterFind(1)
    \/ GetPostTypesAfterQuery(1)
    \/ GetPostTypesAfterPosts(1)
    \/ GetThemeAfterFind(1)
    \/ GetThemeAfterQuery(1)
    \/ GetThemeAfterStat(1)
    \/ GetThemeAfterTemplates(1)
    \/ TemplatesAfterReaddir(1)
    \/ TemplatesAfterRead(1)
    \/ Finish(1)

SpecAccessors == InitAccessors /\ [][NextAccessors]_vars

\* the accessor fn of task t has returned after every connect and query it
\* made succeeded
Answered(t, fn) ==
    /\ Settled(t)
    /\ loc[t].op = fn
    /\ config # Null
    /\ ~g[t].connFailed
    /\ ~g[t].execFailed

\* the segments of a stored value between its ';' separators, in order
Segments(value) ==
    LET seps == {i \in DOMAIN value : value[i] = ";"}
        n == Cardinality(seps)
        Bound(k) == IF k = 0 THEN 0
                    ELSE IF k = n + 1 THEN Len(value) + 1
                    ELSE CHOOSE i \in seps : Cardinality({j \in seps : j <= i}) = k
    IN  [k \in 1..(n + 1) |-> SubSeq(value, Bound(k - 1) + 1, Bound(k) - 1)]

HasText(segment) == \E i \in DOMAIN segment : segment[i] # " "

\* C16: getActivePlugins() returns the segments of the stored value between
\* its ';' separators that are not empty or blank, in order and as stored;
\* 'a/a.php;b/b.php;' gives ['a/a.php', 'b/b.php'], and an absent row gives
\* the empty list.
C16_PluginsSplit ==
    \A t \in Tasks :
        Answered(t, "getActivePlugins") =>
            /\ ret[t].k = "list"
            /\ ret[t].v = IF db.active_plugins.k = "null" THEN <<>>
                          ELSE SelectSeq(Segments(db.active_plugins.v), HasText)
            /\ (db.active_plugins.k = "row"
                    /\ db.active_plugins.v = <<"a/a.php", ";", "b/b.php", ";">>)
                  => ret[t].v = << <<"a/a.php">>, <<"b/b.php">> >>

\* the stored value 'a/a.php;b/b.php;' was read: the trailing empty segment
\* is dropped
C16_Witness ==
    \E t \in Tasks :
        /\ Answered(t, "getActivePlugins")
        /\ db.active_plugins.k = "row"
        /\ db.active_plugins.v = <<"a/a.php", ";", "b/b.php", ";">>
        /\ ret[t].v = << <<"a/a.php">>, <<"b/b.php">> >>

\* the statements task t has sent to the driver, in order
IssuedSql(t) == [i \in 1..Len(g[t].issued) |-> g[t].issued[i].sql]

\* the values of the s:<digits>:"<value>" tokens of a stored option value
StringTokens(value) ==
    LET at == {i \in DOMAIN value : value[i].tag = "s" /\ value[i].value # ""}
        Nth(k) == CHOOSE i \in at : Cardinality({j \in at : j <= i}) = k
    IN  [k \in 1..Cardinality(at) |-> value[Nth(k)].value]

\* C17: getCustomPostTypes() asks for the cptui_post_types option first; when
\* the row exists and holds at least one string token the result is exactly
\* the tokens and the posts table is not queried; otherwise the posts table
\* is queried next and the result is exactly its post_type values.
C17_OptionThenPosts ==
    \A t \in Tasks :
        Answered(t, "getCustomPostTypes") =>
            /\ ret[t].k = "list"
            /\ IF db.cptui_post_types.k = "row"
                   /\ StringTokens(db.cptui_post_types.v) # <<>>
               THEN /\ ret[t].v = StringTokens(db.cptui_post_types.v)
                    /\ IssuedSql(t) = <<"cptui_post_types">>
               ELSE /\ ret[t].v = db.posts
                    /\ IssuedSql(t) = <<"cptui_post_types", "posts">>

\* the option row held tokens while the posts table held other post types:
\* the tokens alone came back
C17_Witness ==
    \E t \in Tasks :
        /\ Answered(t, "getCustomPostTypes")
        /\ db.cptui_post_types.k = "row"
        /\ ret[t].v = <<"book", "movie">>
        /\ db.posts = <<"recipe", "movie">>
        /\ IssuedSql(t) = <<"cptui_post_types">>

\* the names a listing of the theme directory contributes to templateFiles
IsTemplate(file) ==
    /\ file.php
    /\ file.readable
    /\ file.header \/ isWpStandardTemplate(file.name)

TemplateNames(files) ==
    LET kept == SelectSeq(files, IsTemplate)
    IN  [i \in 1..Len(kept) |-> kept[i].name]

Readable(file) == file.readable

\* getActiveTheme of task t has returned a theme whose directory was listed
ThemeListed(t) ==
    /\ Answered(t, "getActiveTheme")
    /\ ret[t].k = "theme"
    /\ fs.theme.stat = "dir"
    /\ fs.theme.list = "ok"

\* C18: templateFiles holds, in listing order, exactly the entries of the
\* theme directory that end in '.php', can be read and carry the marker or
\* a core template name; an unreadable file is left out with no error
\* reported, and the other entries are those of the directory without it.
C18_TemplateFiles ==
    \A t \in Tasks :
        ThemeListed(t) =>
            /\ ret[t].v.templateFiles = TemplateNames(fs.theme.files)
            /\ ret[t].v.templateFiles = TemplateNames(SelectSeq(fs.theme.files, Readable))
            /\ g[t].errors = 0

\* the directory held an unreadable .php file between two templates: both
\* templates are listed
C18_Witness ==
    \E t \in Tasks :
        /\ ThemeListed(t)
        /\ fs.theme.files = <<File("landing.php", TRUE, TRUE, TRUE),
                               File("broken.php", TRUE, FALSE, TRUE),
                               File("index.php", TRUE, TRUE, FALSE)>>
        /\ ret[t].v.templateFiles = <<"landing.php", "index.php">>

(***************************************************************************)
(* Concurrent invocations and the connection field.                        *)
(***************************************************************************)
\* task t is inside connectToDatabase, waiting for the driver
Connecting(t) == At(t, "connectToDatabase", "afterCreate")

\* C19: nothing de-duplicates the driver's connect: a connectToDatabase()
\* calls the driver itself unless its discovery of the config failed, and so
\* does a query() unless it found a connection to execute on, whatever other
\* invocation is in flight; two invocations can both be waiting for the
\* driver with no handle stored.
C19_ConnectNotDeduplicated ==
    \A t \in Tasks :
        /\ (Settled(t) /\ loc[t].op = "connectToDatabase")
              => \/ g[t].connects = 1
                 \/ g[t].connects = 0 /\ ~g[t].cachedAtStart /\ ret[t] = Bool(FALSE)
        /\ (Settled(t) /\ loc[t].op = "query")
              => \/ g[t].connects = 1
                 \/ g[t].connects = 0 /\ g[t].execs = 1
                 \/ g[t].connects = 0 /\ ~g[t].cachedAtStart /\ ret[t].k = "exc"

\* two invocations have both called the driver's connect before either
\* stored a handle
C19_Witness ==
    /\ connection = Null
    /\ handles = <<>>
    /\ \A t \in Tasks : Connecting(t) /\ g[t].connects = 1

(***************************************************************************)
(* Termination of the finder.                                              *)
(***************************************************************************)
Ancestors(startPath) == {Chain(startPath)[d] : d \in DOMAIN Chain(startPath)}

\* one iteration of the finder's loop
Iterates(t) == At(t, "find", "exists") /\ Moved(t)

\* C20: findWordPressConfig(start) terminates for every start path: each
\* iteration returns, or goes on from the parent, a strictly shorter
\* ancestor; it returns not-found when the parent is the current directory
\* or the filesystem root; and only directories of the ancestor line of the
\* start path are tested.
C20_FinderTerminates ==
    /\ [](\A t \in Tasks : \A i \in DOMAIN g[t].tested :
               g[t].tested[i] \in Ancestors(fs.start))
    /\ [][\A t \in Tasks :
              Iterates(t) =>
                  \/ /\ Returns(t, "find")
                     /\ ret'[t] \in {Null, PathV(joinConfig(loc[t].cur))}
                     /\ ret'[t] = Null =>
                            \/ dirname(loc[t].cur) = loc[t].cur
                            \/ dirname(loc[t].cur) = <<>>
                  \/ /\ At(t, "find", "exists")'
                     /\ loc'[t].cur = dirname(loc[t].cur)
                     /\ loc'[t].cur # <<>>
                     /\ Len(loc'[t].cur) < Len(loc[t].cur)
                     /\ loc'[t].cur \in Ancestors(fs.start)]_vars
    /\ \A t \in Tasks : At(t, "find", "exists") ~> Settled(t)

\* the finder walked up from a directory of the greatest depth to the
\* directory under the root, found nothing and returned not-found
C20_Witness ==
    \E t \in Tasks :
        /\ Settled(t)
        /\ loc[t].op = "locate"
        /\ ret[t] = Null
        /\ ~IsRelative(fs.start)
        /\ Len(fs.start) = MaxDepth
        /\ g[t].tested = [i \in 1..MaxDepth |-> Chain(fs.start)[i - 1]]

(***************************************************************************)
(* The config and the connection across the manager's operations.          *)
(***************************************************************************)
\* C21: a non-null connection implies a non-null config: a connection is
\* stored only by a step that finds a config cached, and no step clears the
\* config.
C21_ConnectedImpliesConfigured ==
    /\ [](connection # Null => config # Null)
    /\ [][/\ ((connection' # connection /\ connection' # Null) => config # Null)
           /\ (config # Null => config' # Null)]_vars

\* a connectToDatabase() that began with no config discovered one and stored
\* a connection
C21_Witness ==
    \E t \in Tasks :
        /\ Settled(t)
        /\ loc[t].op = "connectToDatabase"
        /\ ~g[t].cachedAtStart
        /\ ret[t] = Bool(TRUE)
        /\ connection # Null
        /\ config # Null

\* task t is inside WordPressManager.findWordPressConfig()
Discovering(t) ==
    \E i \in DOMAIN stack[t] : stack[t][i].fn = "findWordPressConfig"

\* C22: findWordPressConfig() never touches the connection, and it changes
\* the config only in the step in which it returns the new config: a call
\* that returns null (no workspace folder, no file on the chain, unreadable
\* file) leaves config and connection as they were.
C22_FailedDiscoveryKeepsState ==
    [][\A t \in Tasks :
          /\ (Moved(t) /\ Discovering(t))
                => /\ connection' = connection
                   /\ handles' = handles
                   /\ (config' # config
                         => /\ Returns(t, "findWordPressConfig")
                            /\ ret'[t] = ConfigV(config'))
                   /\ (Returns(t, "findWordPressConfig") /\ ret'[t] = Null)
                         => config' = config
          /\ (Moved(t) /\ stack[t] = <<>> /\ loc'[t].op = "findWordPressConfig"
                 /\ ~fs.ws)
                => /\ ret'[t] = Null
                   /\ Settled(t)'
                   /\ config' = config
                   /\ connection' = connection
                   /\ handles' = handles]_vars

\* findWordPressConfig() reported not-found while the manager keeps the
\* config and the connection of an earlier call
C22_Witness ==
    \E t \in Tasks :
        /\ Settled(t)
        /\ loc[t].op = "findWordPressConfig"
        /\ g[t].cachedAtStart
        /\ ret[t] = Null
        /\ config # Null
        /\ connection # Null

(***************************************************************************)
(* Replies and the database password: the chat participant and the legacy  *)
(* command, for wp-config.php files that differ in DB_PASSWORD only and a  *)
(* server that accepts one password.                                       *)
(***************************************************************************)
ContentShopOther == [ContentShop EXCEPT ![3] = Define("define", "DB_PASSWORD", "pw2")]

ReplyWords ==
    { <<"p", "a", "s", "s", "w", "o", "r", "d", " ">>,
      <<"D", "B", "_", "P", "A", "S", "S", "W", "O", "R", "D">>,
      <<"d", "a", "t", "a", "b", "a", "s", "e", " ">>,
      <<"n", "a", "m", "e">>,
      <<"U", "s", "e", "r">>,
      <<"h", "o", "s", "t">>,
      <<"t", "a", "b", "l", "e", " ">>,
      <<"p", "r", "e", "f", "i", "x">>,
      <<"c", "o", "n", "f", "i", "g">>,
      <<"h", "i", " ">> }

ReplyQuestions == {Concat(ws) : ws \in UNION {[1..n -> ReplyWords] : n \in 0..MaxWords}}

InitReplies ==
    /\ fs \in {FsOf(TRUE, {<<"a">>}, c, TRUE) : c \in {ContentShop, ContentShopOther}}
               \cup {FsOf(TRUE, {}, ContentShop, TRUE)}
    /\ db \in {[d EXCEPT !.server = Server(FALSE, "pw1", TRUE)] : d \in {DbFull, DbPosts}}
    /\ Unconfigured

StartReplyChat(t) == \E prompt \in ReplyQuestions : Begin(t, "chat", prompt)

StartAnswer(t) == \E question \in ReplyQuestions : Begin(t, "answerConfigQuestion", question)

NextReplies ==
    \/ StartReplyChat(1)
    \/ StartAnswer(1)
    \/ FinderExists(1)
    \/ ParseRead(1)
    \/ ManagerFindAfterFind(1)
    \/ ManagerFindAfterParse(1)
    \/ ConnectAfterCreate(1)
    \/ QueryAfterConnect(1)
    \/ QueryAfterExec(1)
    \/ GetVersionAfterQuery(1)
    \/ HandleGeneralAfterGet(1)
    \/ ChatAfterFind(1)
    \/ ChatAfterHandler(1)
    \/ AnswerAfterFind(1)
    \/ Finish(1)

SpecReplies == InitReplies /\ [][NextReplies]_vars

\* the config with its password blanked
Redact(cfg) == [cfg EXCEPT !.dbPassword = ""]

\* the general_info response for a config and the outcome of the version
\* lookup
GeneralFrom(cfg, wpVersion) ==
    Response("general_info",
        DataRec([version |-> wpVersion, path |-> cfg.wpPath,
                 configPath |-> cfg.configPath]),
        Msg("WordPress Information:\n\n- WordPress Version: ",
            <<IF wpVersion.k = "null" THEN "Unknown" ELSE wpVersion.v,
              cfg.wpPath, cfg.configPath, cfg.dbName, cfg.dbUser>>))

\* the version the database holds: what the lookup gives a client the
\* server accepts
StoredVersion == IF db.version.k = "null" THEN Null ELSE Str(db.version.v)

\* the chat handler of task t has built a response of the given type
Responded(t, type) ==
    /\ Settled(t)
    /\ loc[t].op = "chat"
    /\ config # Null
    /\ Intent(t) = type

\* the legacy command of task t has returned on a config
AnswerReturned(t) ==
    /\ Settled(t)
    /\ loc[t].op = "answerConfigQuestion"
    /\ config # Null

\* C23 as amended: every reply is built from the config without its
\* password, so the password's text is in no reply: the responses of
\* handleDatabaseQuery and the strings of the legacy command are those of
\* the config with the password blanked, and the response of
\* handleGeneralInfoQuery is the one of the blanked config and the version
\* the lookup returned, which is the stored version when the server accepts
\* the password and absent when it refuses it.
C23_RepliesFromPublicFields ==
    \A t \in Tasks :
        /\ Responded(t, "database_info") =>
              /\ loc[t].response = handleDatabaseQuery(Redact(config), toLowerCase(loc[t].arg))
        /\ Responded(t, "general_info") =>
              /\ loc[t].response.k = "response"
              /\ loc[t].response =
                     GeneralFrom(Redact(config), loc[t].response.data.v.version)
              /\ loc[t].response.data.v.version =
                     IF ServerAccepts(Creds(config)) THEN StoredVersion ELSE Null
        /\ AnswerReturned(t) =>
              /\ ret[t] = Str(answerConfigQuestion(Redact(config), toLowerCase(loc[t].arg)))

\* the legacy command was asked for the password and answered with the path
\* of the file
C23_Witness ==
    \E t \in Tasks :
        /\ AnswerReturned(t)
        /\ includes(toLowerCase(loc[t].arg), Kw.password)
        /\ config.dbPassword = "pw2"
        /\ ret[t] = Str(Msg("The database password is defined in your wp-config.php at: ",
                             <<config.configPath>>))

\* C23 as stated: the responses and the command's strings are the same for
\* configs that differ in dbPassword only: each is the one the config with
\* the accepted password gets.
C23_RepliesIdentical ==
    \A t \in Tasks :
        /\ Responded(t, "database_info") =>
              loc[t].response = handleDatabaseQuery(Redact(config), toLowerCase(loc[t].arg))
        /\ Responded(t, "general_info") =>
              loc[t].response = GeneralFrom(Redact(config), StoredVersion)
        /\ AnswerReturned(t) =>
              ret[t] = Str(answerConfigQuestion(Redact(config), toLowerCase(loc[t].arg)))

====
